---------------------------- MODULE Spec2Model ----------------------------
(***************************************************************************)
(* A model of the GitHub Copilot API service (services/copilot_service.py, *)
(* function_app.py, services/auth_service.py).                             *)
(*                                                                         *)
(* Text is modelled as a sequence of one-character strings, so that the    *)
(* character-level operations of the code (strip, split, join, the regular *)
(* expression of the sanitizer, Path.suffix) are computed and not assumed. *)
(* Bytes are integers 0..255.                                              *)
(***************************************************************************)
EXTENDS Integers, Sequences, FiniteSets, TLC

VARIABLES
    pc,         \* lifecycle: the position of each chat() call
    call,       \* lifecycle: arguments, locals and outcome of each chat() call
    fs,         \* lifecycle: the temp root, workspace path -> directory
    messages,   \* _build_prompt: its argument
    prompt,     \* _build_prompt: its return value
    output,     \* _parse_copilot_output: its argument
    cleaned,    \* _parse_copilot_output: its return value
    snapshot,   \* _scan_workspace_files: the directory tree it walks
    scanned,    \* _scan_workspace_files: its outcome
    response,   \* stream_chat: the completed chat() result it chunks
    chunks,     \* stream_chat: the frames it emits
    outcome,    \* chat: the (stdout, stderr, code) that _run_copilot_command returned
    response_text,  \* chat: the response text chosen for that outcome
    config,     \* function app: the environment the services were built from
    request,    \* function app: the HTTP request being handled
    reply,      \* function app: the HTTP response returned for it
    probe       \* function app: the await at which the health handler stands

vars == <<pc, call, fs, messages, prompt, output, cleaned, snapshot, scanned,
          response, chunks, outcome, response_text, config, request, reply,
          probe>>
lifeVars == <<pc, call, fs>>
promptVars == <<messages, prompt>>
parseVars == <<output, cleaned>>
scanVars == <<snapshot, scanned>>
streamVars == <<response, chunks>>
outcomeVars == <<outcome, response_text>>
httpVars == <<config, request, reply, probe>>

\* An optional value (Python's None or a value; a variable not yet assigned or
\* assigned) is a sequence of at most one element: <<>> is None, <<v>> is v.
Absent == <<>>
Present(v) == <<v>>

(***************************************************************************)
(* Text helpers.                                                           *)
(***************************************************************************)

\* All sequences over S of length at most n.
SeqUpTo(S, n) == UNION {[1..k -> S] : k \in 0..n}

RECURSIVE Concat(_)
\* The concatenation of a sequence of sequences.
Concat(ss) == IF ss = <<>> THEN <<>> ELSE Head(ss) \o Concat(Tail(ss))

RECURSIVE Join(_, _)
\* sep.join(parts)
Join(sep, parts) ==
    IF parts = <<>> THEN <<>>
    ELSE IF Len(parts) = 1 THEN parts[1]
    ELSE parts[1] \o sep \o Join(sep, Tail(parts))

\* The characters str.strip() and str.isspace() treat as whitespace (those
\* that occur in the model's alphabets).
Whitespace == {" ", "\n", "\t", "\r"}

RECURSIVE LStrip(_)
LStrip(s) == IF s # <<>> /\ Head(s) \in Whitespace THEN LStrip(Tail(s)) ELSE s

RECURSIVE RStrip(_)
RStrip(s) ==
    IF s # <<>> /\ s[Len(s)] \in Whitespace
    THEN RStrip(SubSeq(s, 1, Len(s) - 1))
    ELSE s

\* str.strip()
Strip(s) == LStrip(RStrip(s))

RECURSIVE Split(_, _)
\* str.split(sep) for a one-character separator: the pieces between the
\* separators, empty pieces included; never an empty list.
Split(s, sep) ==
    IF \A i \in 1..Len(s) : s[i] # sep THEN <<s>>
    ELSE LET i == CHOOSE j \in 1..Len(s) :
                      s[j] = sep /\ \A k \in 1..(j - 1) : s[k] # sep
         IN <<SubSeq(s, 1, i - 1)>> \o Split(SubSeq(s, i + 1, Len(s)), sep)

\* dict.get(key, default)
Get(d, key, default) == IF key \in DOMAIN d THEN d[key] ELSE default

(***************************************************************************)
(* _build_prompt (copilot_service.py 376-391).                             *)
(***************************************************************************)

SystemPrefix ==
    <<"S","y","s","t","e","m"," ","i","n","s","t","r","u","c","t","i","o","n","s",":"," ">>
UserPrefix == <<"U","s","e","r",":"," ">>
AssistantPrefix == <<"A","s","s","i","s","t","a","n","t",":"," ">>

\* One pass of the loop body: the parts a message appends.
PromptParts(msg) ==
    LET role == Get(msg, "role", "user")
        content == Get(msg, "content", <<>>)
    IN IF role = "system" THEN <<SystemPrefix \o content>>
       ELSE IF role = "user" THEN <<UserPrefix \o content>>
       ELSE IF role = "assistant" THEN <<AssistantPrefix \o content>>
       ELSE <<>>

_build_prompt(msgs) ==
    Join(<<"\n", "\n">>, Concat([i \in 1..Len(msgs) |-> PromptParts(msgs[i])]))

\* Bounds and inputs of the _build_prompt specification.
MaxMsgs == 2
Roles == {"system", "user", "assistant", "tool"}
Contents == {<<>>, <<"h", "i">>}
\* A message is a dict with an optional "role" and an optional "content".
Messages ==
    {[role |-> r, content |-> c] : r \in Roles, c \in Contents}
        \cup {[content |-> c] : c \in Contents}
        \cup {[role |-> r] : r \in Roles}

\* The variables of the other specifications, which this one leaves alone.
LifeIdle == pc = Absent /\ call = Absent /\ fs = Absent
PromptIdle == messages = Absent /\ prompt = Absent
ParseIdle == output = Absent /\ cleaned = Absent
ScanIdle == snapshot = Absent /\ scanned = Absent
StreamIdle == response = Absent /\ chunks = Absent
OutcomeIdle == outcome = Absent /\ response_text = Absent
HttpIdle ==
    config = Absent /\ request = Absent /\ reply = Absent /\ probe = Absent

InitPrompt ==
    /\ messages \in SeqUpTo(Messages, MaxMsgs)
    /\ prompt = Absent
    /\ LifeIdle /\ ParseIdle /\ ScanIdle /\ StreamIdle /\ OutcomeIdle /\ HttpIdle

\* prompt = self._build_prompt(messages)
BuildPrompt ==
    /\ prompt = Absent
    /\ prompt' = Present(_build_prompt(messages))
    /\ UNCHANGED <<messages, lifeVars, parseVars, scanVars, streamVars, outcomeVars, httpVars>>

NextPrompt == BuildPrompt

SpecPrompt == InitPrompt /\ [][NextPrompt]_vars

\* The prefix the claim gives a role: "User: " for a missing or unrecognized one.
ClaimedPrefix(msg) ==
    LET role == Get(msg, "role", "user")
    IN IF role = "system" THEN SystemPrefix
       ELSE IF role = "assistant" THEN AssistantPrefix
       ELSE UserPrefix

\* C5: for every message sequence, the prompt is one segment per message, in
\* message order, joined by a blank line; each segment is the role prefix
\* ("User: " for a missing or unrecognized role) followed by the content; the
\* empty sequence gives the empty string.
C5_OneSegmentPerMessage ==
    prompt # Absent =>
        prompt[1] = Join(<<"\n", "\n">>,
                      [i \in 1..Len(messages) |->
                          ClaimedPrefix(messages[i]) \o Get(messages[i], "content", <<>>)])

(***************************************************************************)
(* _parse_copilot_output (copilot_service.py 393-415).                     *)
(***************************************************************************)

\* The escape character \x1B, as one character of a text.
ESC == "\\x1B"

\* The glyphs of line 408, each one character of a text, named by code point.
SpinnerGlyphs ==
    {"U+280B", "U+2819", "U+2839", "U+2838", "U+283C",
     "U+2834", "U+2826", "U+2827", "U+2807", "U+280F"}

\* The printable ASCII characters, from " " (32) to "~" (126); the grave accent,
\* which a TLA+ string cannot hold, is named by its code point.
Ascii ==
    <<" ","!","\"","#","$","%","&","'","(",")","*","+",",","-",".","/",
      "0","1","2","3","4","5","6","7","8","9",":",";","<","=",">","?",
      "@","A","B","C","D","E","F","G","H","I","J","K","L","M","N","O",
      "P","Q","R","S","T","U","V","W","X","Y","Z","[","\\","]","^","_",
      "U+0060","a","b","c","d","e","f","g","h","i","j","k","l","m","n","o",
      "p","q","r","s","t","u","v","w","x","y","z","{","|","}","~">>

\* The code point of a character.
Ord(c) ==
    IF c = ESC THEN 27
    ELSE IF c = "\n" THEN 10
    ELSE IF c = "\t" THEN 9
    ELSE IF c = "\r" THEN 13
    ELSE IF c \in SpinnerGlyphs THEN 10240      \* U+2800..U+28FF, above every class
    ELSE 31 + (CHOOSE n \in 1..95 : Ascii[n] = c)

\* The character classes of the pattern of line 399:
\*   \x1B(?:[@-Z\\-_]|\[[0-?]*[ -/]*[@-~])
IsFe(c) == Ord(c) \in (64..90) \cup (92..95)        \* [@-Z\\-_]
IsParam(c) == Ord(c) \in 48..63                      \* [0-?]
IsIntermediate(c) == Ord(c) \in 32..47               \* [ -/]
IsFinal(c) == Ord(c) \in 64..126                     \* [@-~]

RECURSIVE SkipParams(_, _)
\* Where the greedy [0-?]* stops: the first index from i on whose character is
\* no parameter character (Len(s) + 1 if there is none).
SkipParams(s, i) ==
    IF i <= Len(s) /\ IsParam(s[i]) THEN SkipParams(s, i + 1) ELSE i

RECURSIVE SkipIntermediates(_, _)
\* Where the greedy [ -/]* stops.
SkipIntermediates(s, i) ==
    IF i <= Len(s) /\ IsIntermediate(s[i]) THEN SkipIntermediates(s, i + 1) ELSE i

\* The length of the pattern's match starting at index i of s, 0 if there is none.
\* The three classes of the second alternative are disjoint, so the greedy match
\* is the only candidate and backtracking finds no other.
AnsiMatchLen(s, i) ==
    IF s[i] # ESC \/ i + 1 > Len(s) THEN 0
    ELSE IF IsFe(s[i + 1]) THEN 2
    ELSE IF s[i + 1] = "["
         THEN LET k == SkipIntermediates(s, SkipParams(s, i + 2))
              IN IF k <= Len(s) /\ IsFinal(s[k]) THEN k - i + 1 ELSE 0
    ELSE 0

RECURSIVE AnsiSubFrom(_, _)
\* ansi_escape.sub('', output): one left-to-right pass over the leftmost
\* non-overlapping matches.
AnsiSubFrom(s, i) ==
    IF i > Len(s) THEN <<>>
    ELSE LET n == AnsiMatchLen(s, i)
         IN IF n > 0 THEN AnsiSubFrom(s, i + n)
            ELSE <<s[i]>> \o AnsiSubFrom(s, i + 1)

AnsiSub(s) == AnsiSubFrom(s, 1)

\* any(c in line for c in [glyphs])
HasSpinner(line) == \E i \in 1..Len(line) : line[i] \in SpinnerGlyphs

RECURSIVE CleanLines(_, _)
\* The loop of lines 406-413: cleaned_lines after the remaining lines are visited.
CleanLines(lines, cleaned_lines) ==
    IF lines = <<>> THEN cleaned_lines
    ELSE LET line == Head(lines)
         IN IF HasSpinner(line) THEN CleanLines(Tail(lines), cleaned_lines)
            ELSE IF cleaned_lines = <<>> /\ Strip(line) = <<>>
                 THEN CleanLines(Tail(lines), cleaned_lines)
            ELSE CleanLines(Tail(lines), Append(cleaned_lines, line))

NoResponse ==
    <<"N","o"," ","r","e","s","p","o","n","s","e"," ","f","r","o","m"," ",
      "C","o","p","i","l","o","t">>

_parse_copilot_output(out) ==
    IF out = <<>> THEN NoResponse
    ELSE Strip(Join(<<"\n">>, CleanLines(Split(AnsiSub(out), "\n"), <<>>)))

\* Bounds and inputs of the _parse_copilot_output specification.
MaxOutputLen == 5
OutputAlphabet == {ESC, "[", "0", " ", "m", "M", "\n", "U+280B"}

InitParse ==
    /\ output \in SeqUpTo(OutputAlphabet, MaxOutputLen)
    /\ cleaned = Absent
    /\ LifeIdle /\ PromptIdle /\ ScanIdle /\ StreamIdle /\ OutcomeIdle /\ HttpIdle

\* response_text = self._parse_copilot_output(stdout)
ParseOutput ==
    /\ cleaned = Absent
    /\ cleaned' = Present(_parse_copilot_output(output))
    /\ UNCHANGED <<output, lifeVars, promptVars, scanVars, streamVars, outcomeVars, httpVars>>

NextParse == ParseOutput

SpecParse == InitParse /\ [][NextParse]_vars

\* An ANSI/VT100 escape sequence, as the pattern of line 399 defines one, lies at
\* s[i..j]: ESC and one character of [@-Z\\-_], or ESC [ then parameter
\* characters, then intermediate characters, then one final character.
IsEscapeSequence(s, i, j) ==
    /\ 1 <= i /\ i < j /\ j <= Len(s)
    /\ s[i] = ESC
    /\ \/ j = i + 1 /\ IsFe(s[j])
       \/ /\ s[i + 1] = "[" /\ j >= i + 2 /\ IsFinal(s[j])
          /\ \E a \in (i + 1)..(j - 1) :
                /\ \A k \in (i + 2)..a : IsParam(s[k])
                /\ \A k \in (a + 1)..(j - 1) : IsIntermediate(s[k])

HasEscapeSequence(s) ==
    \E i \in 1..Len(s) : \E j \in 1..Len(s) : IsEscapeSequence(s, i, j)

\* C7: for every raw CLI output, the cleaned text contains no spinner glyph and
\* no ANSI/VT100 escape sequence.
C7_NoGlyphNoEscape ==
    cleaned # Absent => ~HasSpinner(cleaned[1]) /\ ~HasEscapeSequence(cleaned[1])

(***************************************************************************)
(* _scan_workspace_files and _get_mime_type (copilot_service.py 81-214).   *)
(*                                                                         *)
(* A directory tree is the sequence of the entries that rglob("*") yields, *)
(* in its order.  An entry is                                              *)
(*   [dirs, name, is_file, size, bytes, fails]                             *)
(* dirs: the ancestor directory components relative to the workspace;      *)
(* name: the last component; size: st_size as stat() reports it; bytes:    *)
(* what f.read() returns; fails: the system call that fails on this entry  *)
(* ("none" if none does).                                                  *)
(***************************************************************************)

\* Lines 90-99.
IGNORED_DIRS ==
    {<<".","v","e","n","v">>, <<"v","e","n","v">>,
     <<"e","n","v">>, <<".","e","n","v">>,
     <<"_","_","p","y","c","a","c","h","e","_","_">>, <<".","p","y","t","e","s","t","_","c","a","c","h","e">>,
     <<".","m","y","p","y","_","c","a","c","h","e">>, <<".","r","u","f","f","_","c","a","c","h","e">>,
     <<"n","o","d","e","_","m","o","d","u","l","e","s">>, <<".","n","p","m">>,
     <<".","g","i","t">>, <<".","s","v","n">>,
     <<".","h","g">>, <<".","i","d","e","a">>,
     <<".","v","s","c","o","d","e">>, <<".","v","s">>,
     <<"d","i","s","t">>, <<"b","u","i","l","d">>,
     <<"t","a","r","g","e","t">>, <<"o","u","t">>,
     <<".","t","o","x">>, <<".","n","o","x">>,
     <<"h","t","m","l","c","o","v">>, <<".","c","o","v","e","r","a","g","e">>,
     <<"e","g","g","-","i","n","f","o">>, <<".","e","g","g","s">>}

\* Lines 101-107.
IGNORED_EXTENSIONS ==
    {<<".","p","y","c">>, <<".","p","y","o">>,
     <<".","p","y","d">>, <<".","s","o">>,
     <<".","d","l","l">>, <<".","d","y","l","i","b">>,
     <<".","e","x","e">>, <<".","b","i","n">>,
     <<".","l","o","g">>, <<".","t","m","p">>,
     <<".","t","e","m","p">>, <<".","D","S","_","S","t","o","r","e">>,
     <<".","g","i","t","i","g","n","o","r","e">>, <<".","g","i","t","a","t","t","r","i","b","u","t","e","s">>}

\* Lines 109-112.
IGNORED_FILES ==
    {<<".","D","S","_","S","t","o","r","e">>,
     <<"T","h","u","m","b","s",".","d","b">>,
     <<"d","e","s","k","t","o","p",".","i","n","i">>,
     <<".","e","n","v">>,
     <<".","e","n","v",".","l","o","c","a","l">>,
     <<".","e","n","v",".","d","e","v","e","l","o","p","m","e","n","t">>}

\* Lines 183-213: the pairs (extension, MIME type).
mime_map ==
    {<<<<".","p","y">>, "text/x-python">>,
     <<<<".","j","s">>, "text/javascript">>,
     <<<<".","t","s">>, "text/typescript">>,
     <<<<".","j","s","x">>, "text/jsx">>,
     <<<<".","t","s","x">>, "text/tsx">>,
     <<<<".","j","s","o","n">>, "application/json">>,
     <<<<".","h","t","m","l">>, "text/html">>,
     <<<<".","c","s","s">>, "text/css">>,
     <<<<".","m","d">>, "text/markdown">>,
     <<<<".","t","x","t">>, "text/plain">>,
     <<<<".","y","a","m","l">>, "text/yaml">>,
     <<<<".","y","m","l">>, "text/yaml">>,
     <<<<".","x","m","l">>, "application/xml">>,
     <<<<".","s","h">>, "text/x-shellscript">>,
     <<<<".","b","a","s","h">>, "text/x-shellscript">>,
     <<<<".","p","s","1">>, "text/x-powershell">>,
     <<<<".","j","a","v","a">>, "text/x-java">>,
     <<<<".","c">>, "text/x-c">>,
     <<<<".","c","p","p">>, "text/x-c++">>,
     <<<<".","h">>, "text/x-c">>,
     <<<<".","c","s">>, "text/x-csharp">>,
     <<<<".","g","o">>, "text/x-go">>,
     <<<<".","r","s">>, "text/x-rust">>,
     <<<<".","r","b">>, "text/x-ruby">>,
     <<<<".","p","h","p">>, "text/x-php">>,
     <<<<".","s","q","l">>, "text/x-sql">>,
     <<<<".","d","o","c","k","e","r","f","i","l","e">>, "text/x-dockerfile">>,
     <<<<".","g","i","t","i","g","n","o","r","e">>, "text/plain">>,
     <<<<".","e","n","v">>, "text/plain">>}

\* Line 136: the dot-prefixed names the scan lets through.
ALLOWED_DOTFILES ==
    {<<".","g","i","t","i","g","n","o","r","e">>,
     <<".","d","o","c","k","e","r","i","g","n","o","r","e">>}

\* Line 143: 1024 * 1024.
MAX_FILE_SIZE == 1024 * 1024

UpperCase ==
    <<"A","B","C","D","E","F","G","H","I","J","K","L","M",
      "N","O","P","Q","R","S","T","U","V","W","X","Y","Z">>
LowerCase ==
    <<"a","b","c","d","e","f","g","h","i","j","k","l","m",
      "n","o","p","q","r","s","t","u","v","w","x","y","z">>

\* str.lower(), for ASCII text
Lower(s) ==
    [i \in 1..Len(s) |->
        IF \E k \in 1..26 : UpperCase[k] = s[i]
        THEN LowerCase[CHOOSE k \in 1..26 : UpperCase[k] = s[i]]
        ELSE s[i]]

\* str.rfind("."): the index of the last dot, -1 if there is none (0-based, as
\* in Python).
RFindDot(s) ==
    IF \E i \in 1..Len(s) : s[i] = "."
    THEN (CHOOSE i \in 1..Len(s) : s[i] = "." /\ \A k \in (i + 1)..Len(s) : s[k] # ".") - 1
    ELSE -1

\* PurePath.suffix: the last dot and what follows it, unless that dot leads or
\* ends the name.
Suffix(name) ==
    LET i == RFindDot(name)
    IN IF 0 < i /\ i < Len(name) - 1 THEN SubSeq(name, i + 1, Len(name)) ELSE <<>>

\* str.replace(old, new) for single characters
Replace(s, old, new) == [i \in 1..Len(s) |-> IF s[i] = old THEN new ELSE s[i]]

\* _get_mime_type(extension): mime_map.get(extension, "application/octet-stream")
_get_mime_type(extension) ==
    IF \E e \in mime_map : e[1] = extension
    THEN (CHOOSE e \in mime_map : e[1] = extension)[2]
    ELSE "application/octet-stream"

\* The alphabet of base64.b64encode.
B64Alphabet ==
    <<"A","B","C","D","E","F","G","H","I","J","K","L","M","N","O","P",
      "Q","R","S","T","U","V","W","X","Y","Z","a","b","c","d","e","f",
      "g","h","i","j","k","l","m","n","o","p","q","r","s","t","u","v",
      "w","x","y","z","0","1","2","3","4","5","6","7","8","9","+","/">>

RECURSIVE b64encode(_)
\* base64.b64encode(content_bytes).decode("ascii"): three bytes give four
\* characters; a last group of one or two bytes is padded with "=".
b64encode(bs) ==
    LET c(n) == B64Alphabet[n + 1]
    IN IF bs = <<>> THEN <<>>
       ELSE IF Len(bs) = 1
            THEN <<c(bs[1] \div 4), c((bs[1] % 4) * 16), "=", "=">>
       ELSE IF Len(bs) = 2
            THEN <<c(bs[1] \div 4), c((bs[1] % 4) * 16 + (bs[2] \div 16)),
                   c((bs[2] % 16) * 4), "=">>
       ELSE <<c(bs[1] \div 4), c((bs[1] % 4) * 16 + (bs[2] \div 16)),
              c((bs[2] % 16) * 4 + (bs[3] \div 64)), c(bs[3] % 64)>>
            \o b64encode(SubSeq(bs, 4, Len(bs)))

\* A decoder that checks only the bit patterns of lead and continuation bytes,
\* and so lets overlong forms and encoded surrogates through.
Utf8SeqLenLax(bs) ==
    LET n == Len(bs)
        b1 == bs[1]
        cont(i) == i <= n /\ bs[i] \in 128..191
    IN IF b1 <= 127 THEN 1
       ELSE IF b1 \in 192..223 THEN (IF cont(2) THEN 2 ELSE 0)
       ELSE IF b1 \in 224..239 THEN (IF cont(2) /\ cont(3) THEN 3 ELSE 0)
       ELSE IF b1 \in 240..247 THEN (IF cont(2) /\ cont(3) /\ cont(4) THEN 4 ELSE 0)
       ELSE 0

\* The number of bytes of the UTF-8 sequence that starts bs, 0 if bs does not
\* start with a well-formed one: what the strict "utf-8" codec accepts (no
\* overlong form, no surrogate, nothing above U+10FFFF).
Utf8SeqLen(bs) ==
    LET n == Len(bs)
        b1 == bs[1]
        cont(i) == i <= n /\ bs[i] \in 128..191
        second(lo, hi) == 2 <= n /\ bs[2] \in lo..hi
    IN IF b1 <= 127 THEN 1
       ELSE IF b1 \in 194..223 THEN (IF cont(2) THEN 2 ELSE 0)
       ELSE IF b1 = 224 THEN (IF second(160, 191) /\ cont(3) THEN 3 ELSE 0)
       ELSE IF b1 \in (225..236) \cup (238..239)
            THEN (IF cont(2) /\ cont(3) THEN 3 ELSE 0)
       ELSE IF b1 = 237 THEN (IF second(128, 159) /\ cont(3) THEN 3 ELSE 0)
       ELSE IF b1 = 240
            THEN (IF second(144, 191) /\ cont(3) /\ cont(4) THEN 4 ELSE 0)
       ELSE IF b1 \in 241..243
            THEN (IF cont(2) /\ cont(3) /\ cont(4) THEN 4 ELSE 0)
       ELSE IF b1 = 244
            THEN (IF second(128, 143) /\ cont(3) /\ cont(4) THEN 4 ELSE 0)
       ELSE 0

\* The code point a well-formed UTF-8 sequence of n bytes at the head of bs holds.
Utf8CodePoint(bs, n) ==
    IF n = 1 THEN bs[1]
    ELSE IF n = 2 THEN (bs[1] % 32) * 64 + (bs[2] % 64)
    ELSE IF n = 3 THEN (bs[1] % 16) * 4096 + (bs[2] % 64) * 64 + (bs[3] % 64)
    ELSE (bs[1] % 8) * 262144 + (bs[2] % 64) * 4096 + (bs[3] % 64) * 64 + (bs[4] % 64)

RECURSIVE utf8decode(_)
\* content_bytes.decode("utf-8"): [ok |-> TRUE, text |-> the code points], or
\* [ok |-> FALSE] for the UnicodeDecodeError.  A str is given by its code points.
utf8decode(bs) ==
    IF bs = <<>> THEN [ok |-> TRUE, text |-> <<>>]
    ELSE LET n == Utf8SeqLen(bs)
         IN IF n = 0 THEN [ok |-> FALSE, text |-> <<>>]
            ELSE LET rest == utf8decode(SubSeq(bs, n + 1, Len(bs)))
                 IN IF rest.ok
                    THEN [ok |-> TRUE, text |-> <<Utf8CodePoint(bs, n)>> \o rest.text]
                    ELSE rest

\* Lines 124-137: the rules that skip an entry before it is read.
IgnoredAncestor(f) == \E i \in 1..Len(f.dirs) : f.dirs[i] \in IGNORED_DIRS
IgnoredExtension(f) == Lower(Suffix(f.name)) \in IGNORED_EXTENSIONS
IgnoredName(f) == f.name \in IGNORED_FILES
\* A rule for dot-prefixed names that has no allow-list.
HiddenNameWithoutAllowList(f) == f.name # <<>> /\ f.name[1] = "."

HiddenName(f) ==
    f.name # <<>> /\ f.name[1] = "." /\ f.name \notin ALLOWED_DOTFILES

SkippedByRule(f) ==
    IgnoredAncestor(f) \/ IgnoredExtension(f) \/ IgnoredName(f) \/ HiddenName(f)

\* Lines 147-174: the dict appended for a file that was read.
FileInfo(f) ==
    LET decoded == utf8decode(f.bytes)
        is_binary == ~decoded.ok
        extension == Lower(Suffix(f.name))
    IN [path |-> Replace(Join(<<"/">>, Append(f.dirs, f.name)), "\\", "/"),
        name |-> f.name,
        extension |-> extension,
        size |-> f.size,
        is_binary |-> is_binary,
        mime_type |-> _get_mime_type(extension),
        content_base64 |-> b64encode(f.bytes),
        content_text |-> IF ~is_binary THEN Present(decoded.text) ELSE Absent]

\* Lines 139-177: the try block; what it appends to files.
ReadFile(f) ==
    IF f.fails = "stat" THEN <<>>                    \* caught at line 176
    ELSE IF f.size > MAX_FILE_SIZE THEN <<>>         \* line 143
    ELSE IF f.fails \in {"open", "read"} THEN <<>>   \* caught at line 176
    ELSE <<FileInfo(f)>>

\* Path.is_file() at line 118: TRUE or FALSE, or "raise".  Its stat() failing
\* with ENOENT ("vanished") answers False; failing with another error, such as
\* EACCES ("denied"), propagates.
IsFile(f) ==
    IF f.fails = "denied" THEN "raise"
    ELSE IF f.fails = "vanished" THEN "False"
    ELSE IF f.is_file THEN "True" ELSE "False"

\* One pass of the loop body of lines 117-177: what the entry appends.
ScanEntry(f) ==
    IF IsFile(f) # "True" THEN <<>>
    ELSE IF SkippedByRule(f) THEN <<>>
    ELSE ReadFile(f)

RECURSIVE ScanFrom(_, _, _)
ScanFrom(tree, i, acc) ==
    IF i > Len(tree) THEN [raised |-> FALSE, files |-> acc]
    ELSE IF IsFile(tree[i]) = "raise" THEN [raised |-> TRUE, files |-> <<>>]
    ELSE ScanFrom(tree, i + 1, acc \o ScanEntry(tree[i]))

\* _scan_workspace_files(workspace_path) on the tree found at that path:
\* [raised |-> FALSE, files |-> the list returned], or raised |-> TRUE when an
\* exception leaves the function.
_scan_workspace_files(tree) == ScanFrom(tree, 1, <<>>)

\* Bounds and inputs of the _scan_workspace_files specification.
MaxFiles == 2
MaxBytes == 4

ScanNames ==
    {<<"a",".","p","y">>, <<"A",".","P","Y","C">>,
     <<"a",".","D","S","_","S","t","o","r","e">>, <<"a",".","l","o","g">>,
     <<".","e","n","v">>, <<".","h","i","d","d","e","n">>,
     <<".","g","i","t","i","g","n","o","r","e">>, <<".","d","o","c","k","e","r","i","g","n","o","r","e">>,
     <<"T","h","u","m","b","s",".","d","b">>, <<"x",".","g","i","t","i","g","n","o","r","e">>,
     <<"R","E","A","D","M","E">>, <<"d","i","s","t">>}

ScanDirs ==
    {<<>>,
     <<<<"s","r","c">>>>,
     <<<<"n","o","d","e","_","m","o","d","u","l","e","s">>>>,
     <<<<"s","r","c">>, <<".","g","i","t">>>>,
     <<<<".","g","i","t","h","u","b">>>>}

\* What an entry is and holds: a file whose stat size is the length of what is
\* read (text, or bytes that are no UTF-8), a file of exactly and of just over
\* 1 MiB (bytes: the start of its content), a file on which a system call
\* fails, a directory.
TextFile == [is_file |-> TRUE, size |-> 2, bytes |-> <<104, 105>>, fails |-> "none"]
BinaryFile == [is_file |-> TRUE, size |-> 1, bytes |-> <<255>>, fails |-> "none"]
MiBFile == [is_file |-> TRUE, size |-> MAX_FILE_SIZE, bytes |-> <<65>>, fails |-> "none"]
OversizeFile ==
    [is_file |-> TRUE, size |-> MAX_FILE_SIZE + 1, bytes |-> <<65>>, fails |-> "none"]
FailingFile(call_) == [TextFile EXCEPT !.fails = call_]
Directory == [is_file |-> FALSE, size |-> 0, bytes |-> <<>>, fails |-> "none"]

ScanKinds ==
    {TextFile, BinaryFile, MiBFile, OversizeFile, Directory}
        \cup {FailingFile(c) : c \in {"stat", "open", "read", "vanished", "denied"}}

Entry(dirs, name, kind) ==
    [dirs |-> dirs, name |-> name, is_file |-> kind.is_file, size |-> kind.size,
     bytes |-> kind.bytes, fails |-> kind.fails]

\* Every name in every directory as every kind of entry, each alone in a tree.
NamedEntries == {Entry(d, n, k) : d \in ScanDirs, n \in ScanNames, k \in ScanKinds}

\* One file name holding every byte string up to MaxBytes over bytes that make
\* well-formed and ill-formed UTF-8 of one to four bytes.
ScanBytes == {65, 128, 160, 169, 195, 224, 237, 240}
ByteEntries ==
    {[dirs |-> <<>>, name |-> <<"f",".","t","x","t">>, is_file |-> TRUE, size |-> Len(bs),
      bytes |-> bs, fails |-> "none"] : bs \in SeqUpTo(ScanBytes, MaxBytes)}

\* The entries that trees of several entries are made of.
TreeEntries ==
    {Entry(<<>>, <<"a",".","p","y">>, TextFile),
     Entry(<<<<"s","r","c">>>>, <<"R","E","A","D","M","E">>, BinaryFile),
     Entry(<<>>, <<"R","E","A","D","M","E">>, FailingFile("open")),
     Entry(<<<<"s","r","c">>>>, <<"a",".","p","y">>, FailingFile("denied")),
     Entry(<<<<"n","o","d","e","_","m","o","d","u","l","e","s">>>>, <<"a",".","p","y">>, TextFile),
     Entry(<<>>, <<"d","i","s","t">>, OversizeFile)}

EntryPath(f) == Append(f.dirs, f.name)

\* A tree holds no path twice.
Trees ==
    {t \in SeqUpTo(TreeEntries, MaxFiles) :
        \A i, j \in 1..Len(t) : i # j => EntryPath(t[i]) # EntryPath(t[j])}

Snapshots == {<<f>> : f \in NamedEntries \cup ByteEntries} \cup Trees

InitScan ==
    /\ snapshot \in Snapshots
    /\ scanned = Absent
    /\ LifeIdle /\ PromptIdle /\ ParseIdle /\ StreamIdle /\ OutcomeIdle /\ HttpIdle

\* files_created = self._scan_workspace_files(workspace_path)
ScanWorkspace ==
    /\ scanned = Absent
    /\ scanned' = Present(_scan_workspace_files(snapshot))
    /\ UNCHANGED <<snapshot, lifeVars, promptVars, parseVars, streamVars, outcomeVars, httpVars>>

NextScan == ScanWorkspace

SpecScan == InitScan /\ [][NextScan]_vars

\* The list a finished scan returned.
Returned == scanned[1].files

\* The ancestor directory components of an artifact's relative path.
ArtifactDirs(a) ==
    LET parts == Split(a.path, "/") IN SubSeq(parts, 1, Len(parts) - 1)

\* The artifact returned for entry f of the snapshot, if there is one.
ArtifactsOf(f) ==
    {i \in 1..Len(Returned) :
        Returned[i].path = Join(<<"/">>, EntryPath(f))}

\* C8: the scan never returns an artifact that has an ancestor directory in
\* the ignored-directory set, an extension in the ignored-extension set, a
\* filename in the ignored-filename set, or a size above 1 MiB; a file of
\* exactly 1 MiB is not excluded by the size rule.
C8_ScanExcludes ==
    (scanned # Absent /\ ~scanned[1].raised) =>
        /\ \A i \in 1..Len(Returned) :
              LET a == Returned[i]
              IN /\ \A k \in 1..Len(ArtifactDirs(a)) :
                        ArtifactDirs(a)[k] \notin IGNORED_DIRS
                 /\ Suffix(a.name) \notin IGNORED_EXTENSIONS
                 /\ a.name \notin IGNORED_FILES
                 /\ a.size <= 1048576
        /\ \A j \in 1..Len(snapshot) :
              LET f == snapshot[j]
              IN (f.is_file /\ f.fails = "none" /\ f.size = 1048576
                    /\ ~SkippedByRule(f))
                 => \E i \in ArtifactsOf(f) : Returned[i].size = 1048576

\* What the scan does keep of C8, with "extension" read as the lower-cased
\* extension the artifact records (its "extension" key): the entry ".DS_Store"
\* of IGNORED_EXTENSIONS holds capitals and never equals a lower-cased suffix.
ScanExcludesLowered ==
    (scanned # Absent /\ ~scanned[1].raised) =>
        /\ \A i \in 1..Len(Returned) :
              LET a == Returned[i]
              IN /\ \A k \in 1..Len(ArtifactDirs(a)) :
                        ArtifactDirs(a)[k] \notin IGNORED_DIRS
                 /\ a.extension \notin IGNORED_EXTENSIONS
                 /\ a.name \notin IGNORED_FILES
                 /\ a.size <= 1048576
        /\ \A j \in 1..Len(snapshot) :
              LET f == snapshot[j]
              IN (f.is_file /\ f.fails = "none" /\ f.size = 1048576
                    /\ ~SkippedByRule(f))
                 => \E i \in ArtifactsOf(f) : Returned[i].size = 1048576

\* An entry that the rules keep and that can be read: a regular file on which
\* no system call fails, of at most 1 MiB, that no rule of lines 124-137 skips.
Qualifies(f) ==
    f.is_file /\ f.fails = "none" /\ f.size <= 1048576 /\ ~SkippedByRule(f)

\* C14: a finished scan did not raise; every entry of the snapshot that
\* qualifies has its artifact in the list returned, wherever an entry with a
\* failing stat, open or read stands in the traversal; and no entry on which a
\* system call fails has an artifact.
C14_ReadErrorSkipsOnlyThatFile ==
    scanned # Absent =>
        /\ ~scanned[1].raised
        /\ \A j \in 1..Len(snapshot) :
              /\ Qualifies(snapshot[j]) => ArtifactsOf(snapshot[j]) # {}
              /\ snapshot[j].fails # "none" => ArtifactsOf(snapshot[j]) = {}

\* What the scan keeps of C14: where no stat() of the is_file() test at line
\* 118, which stands outside the try block of lines 139-177, fails with an
\* error other than a missing file, the scan does not raise, skips each
\* failing entry and returns the artifact of every qualifying one.
ReadErrorInsideTrySkipsOnlyThatFile ==
    (scanned # Absent /\ \A j \in 1..Len(snapshot) : snapshot[j].fails # "denied") =>
        /\ ~scanned[1].raised
        /\ \A j \in 1..Len(snapshot) :
              /\ Qualifies(snapshot[j]) => ArtifactsOf(snapshot[j]) # {}
              /\ snapshot[j].fails # "none" => ArtifactsOf(snapshot[j]) = {}

\* C15: in the list a scan returned, every name that starts with "." is
\* ".gitignore" or ".dockerignore"; and every entry of the snapshot with one
\* of these two names that is a readable regular file of at most 1 MiB with no
\* ancestor directory in the ignored set has its artifact in the list, under
\* its own name.
C15_OnlyAllowListedDotfiles ==
    (scanned # Absent /\ ~scanned[1].raised) =>
        /\ \A i \in 1..Len(Returned) :
              (Returned[i].name # <<>> /\ Returned[i].name[1] = ".")
                 => Returned[i].name \in ALLOWED_DOTFILES
        /\ \A j \in 1..Len(snapshot) :
              LET f == snapshot[j]
              IN (/\ f.name \in ALLOWED_DOTFILES
                  /\ f.is_file /\ f.fails = "none" /\ f.size <= 1048576
                  /\ \A k \in 1..Len(f.dirs) : f.dirs[k] \notin IGNORED_DIRS)
                 => \E i \in ArtifactsOf(f) : Returned[i].name = f.name

\* C15's case: the snapshot held a file named ".gitignore" in a directory that
\* is not ignored, and the scan returned its artifact.
C15_Witness ==
    /\ scanned # Absent /\ ~scanned[1].raised
    /\ \E j \in 1..Len(snapshot) :
          /\ snapshot[j].name = <<".","g","i","t","i","g","n","o","r","e">>
          /\ snapshot[j].dirs # <<>>
          /\ \E i \in ArtifactsOf(snapshot[j]) :
                Returned[i].name = <<".","g","i","t","i","g","n","o","r","e">>

\* The value of a base64 character: its place in the alphabet.
B64Value(c) == (CHOOSE n \in 1..64 : B64Alphabet[n] = c) - 1

RECURSIVE b64decode(_)
\* base64 decoding (RFC 4648): four characters give three bytes, a group ending
\* in "=" two, one ending in "==" a single byte.
b64decode(cs) ==
    IF cs = <<>> THEN <<>>
    ELSE LET v1 == B64Value(cs[1])
             v2 == B64Value(cs[2])
             rest == b64decode(SubSeq(cs, 5, Len(cs)))
         IN IF cs[3] = "=" THEN <<v1 * 4 + (v2 \div 16)>>
            ELSE LET v3 == B64Value(cs[3])
                 IN IF cs[4] = "="
                    THEN <<v1 * 4 + (v2 \div 16), (v2 % 16) * 16 + (v3 \div 4)>>
                    ELSE <<v1 * 4 + (v2 \div 16), (v2 % 16) * 16 + (v3 \div 4),
                           (v3 % 4) * 64 + B64Value(cs[4])>> \o rest

\* A Unicode scalar value: a code point that is no surrogate.
IsScalar(cp) == cp \in 0..1114111 /\ cp \notin 55296..57343

\* The UTF-8 encoding of a scalar value (Unicode 3.9, table 3-6).
Utf8Encode(cp) ==
    IF cp < 128 THEN <<cp>>
    ELSE IF cp < 2048 THEN <<192 + (cp \div 64), 128 + (cp % 64)>>
    ELSE IF cp < 65536
         THEN <<224 + (cp \div 4096), 128 + ((cp \div 64) % 64), 128 + (cp % 64)>>
    ELSE <<240 + (cp \div 262144), 128 + ((cp \div 4096) % 64),
           128 + ((cp \div 64) % 64), 128 + (cp % 64)>>

Utf8EncodeText(text) == Concat([i \in 1..Len(text) |-> Utf8Encode(text[i])])

\* The only scalar value whose encoding a byte string of 1 to 4 bytes can be.
ScalarOf(bs) ==
    IF Len(bs) = 1 THEN bs[1]
    ELSE IF Len(bs) = 2 THEN (bs[1] - 192) * 64 + (bs[2] - 128)
    ELSE IF Len(bs) = 3
         THEN (bs[1] - 224) * 4096 + (bs[2] - 128) * 64 + (bs[3] - 128)
    ELSE (bs[1] - 240) * 262144 + (bs[2] - 128) * 4096 + (bs[3] - 128) * 64
         + (bs[4] - 128)

RECURSIVE IsUtf8(_)
\* bs is valid UTF-8: the concatenation of encodings of scalar values.
IsUtf8(bs) ==
    \/ bs = <<>>
    \/ \E n \in 1..4 :
          /\ n <= Len(bs)
          /\ LET head == SubSeq(bs, 1, n)
             IN /\ IsScalar(ScalarOf(head))
                /\ Utf8Encode(ScalarOf(head)) = head
          /\ IsUtf8(SubSeq(bs, n + 1, Len(bs)))

\* C9: for every file the scan returns, content_base64 decodes to exactly the
\* bytes of the file; content_text is present, and is the UTF-8 decoding of
\* those bytes, if and only if the bytes are valid UTF-8; otherwise it is
\* absent and is_binary is true; is_binary is false exactly when content_text
\* is present.
C9_ContentRoundTrip ==
    (scanned # Absent /\ ~scanned[1].raised) =>
        \A j \in 1..Len(snapshot) : \A i \in ArtifactsOf(snapshot[j]) :
            LET f == snapshot[j]
                a == Returned[i]
            IN /\ b64decode(a.content_base64) = f.bytes
               /\ (a.content_text # Absent) <=> IsUtf8(f.bytes)
               /\ a.content_text # Absent =>
                     /\ \A k \in 1..Len(a.content_text[1]) :
                            IsScalar(a.content_text[1][k])
                     /\ Utf8EncodeText(a.content_text[1]) = f.bytes
               /\ a.is_binary <=> (a.content_text = Absent)

\* C9's case: a file of three bytes that are no UTF-8 (an encoded surrogate) was
\* returned, marked binary, its text absent.
C9_Witness ==
    /\ scanned # Absent /\ ~scanned[1].raised
    /\ Len(snapshot) = 1 /\ snapshot[1].bytes = <<237, 160, 128>>
    /\ Len(Returned) = 1 /\ Returned[1].is_binary
    /\ Returned[1].content_text = Absent

(***************************************************************************)
(* stream_chat (copilot_service.py 480-522), after its call of chat().     *)
(*                                                                         *)
(* The value returned is the concatenation of the frames; a frame          *)
(* "data: <json>\n\n" is modelled by the object it serializes, the last    *)
(* frame "data: [DONE]\n\n" by [object |-> "[DONE]"].                      *)
(***************************************************************************)

\* A chunker that ends every word, the last one too, with a space.
DeltaContentAlwaysSpace(words, i) == words[i] \o <<" ">>

\* Line 505: the delta content of the i-th word.
DeltaContent(words, i) == words[i] \o (IF i < Len(words) THEN <<" ">> ELSE <<>>)

\* Line 506: the finish_reason of the i-th word, None or "stop".
DeltaFinishReason(words, i) == IF i < Len(words) THEN Absent ELSE Present("stop")

\* Lines 500-508.
ChunkData(resp, words, i) ==
    [id |-> resp.id,
     object |-> "chat.completion.chunk",
     index |-> 0,
     content |-> DeltaContent(words, i),
     finish_reason |-> DeltaFinishReason(words, i)]

\* Lines 513-518.
FilesChunk(resp) ==
    [id |-> resp.id,
     object |-> "chat.completion.files",
     files |-> resp.files,
     files_count |-> Len(resp.files)]

DoneFrame == [object |-> "[DONE]"]

\* Lines 492-522, on the response chat() returned: the frames, in order.
stream_chat(resp) ==
    LET words == Split(resp.content, " ")
    IN [i \in 1..Len(words) |-> ChunkData(resp, words, i)]
       \o (IF resp.files # <<>> THEN <<FilesChunk(resp)>> ELSE <<>>)
       \o <<DoneFrame>>

\* Bounds and inputs of the stream_chat specification.
MaxContentLen == 4
ContentAlphabet == {"a", " ", "\n"}
StreamFiles ==
    {<<>>,
     _scan_workspace_files(<<Entry(<<>>, <<"a",".","p","y">>, TextFile)>>).files,
     _scan_workspace_files(<<Entry(<<>>, <<"a",".","p","y">>, TextFile),
                             Entry(<<>>, <<"R","E","A","D","M","E">>, BinaryFile)>>).files}

InitStream ==
    /\ response \in [id : {"copilot-copilot_workspace_1"},
                     content : SeqUpTo(ContentAlphabet, MaxContentLen),
                     files : StreamFiles]
    /\ chunks = Absent
    /\ LifeIdle /\ PromptIdle /\ ParseIdle /\ ScanIdle /\ OutcomeIdle /\ HttpIdle

StreamChat ==
    /\ chunks = Absent
    /\ chunks' = Present(stream_chat(response))
    /\ UNCHANGED <<response, lifeVars, promptVars, parseVars, scanVars, outcomeVars, httpVars>>

NextStream == StreamChat

SpecStream == InitStream /\ [][NextStream]_vars

\* The number of spaces in a text.
Spaces(s) == Cardinality({i \in 1..Len(s) : s[i] = " "})

\* C10: the frames are, in order: one delta frame per piece of the response
\* text between single spaces, each carrying its piece plus a trailing space
\* except the last, which carries it alone and is the only one with
\* finish_reason "stop" (their contents concatenated are the response text);
\* then one files frame with the full artifact list if and only if the list is
\* not empty; then one [DONE] frame, and nothing after it.
C10_StreamFrames ==
    chunks # Absent =>
        LET frames == chunks[1]
            n == Spaces(response.content) + 1
            k == IF response.files # <<>> THEN 1 ELSE 0
        IN /\ Len(frames) = n + k + 1
           /\ \A i \in 1..n :
                 LET c == frames[i].content
                 IN /\ frames[i].object = "chat.completion.chunk"
                    /\ i < n => /\ c # <<>> /\ c[Len(c)] = " "
                                /\ Spaces(c) = 1
                                /\ frames[i].finish_reason = Absent
                    /\ i = n => /\ Spaces(c) = 0
                                /\ frames[i].finish_reason = Present("stop")
           /\ Concat([i \in 1..n |-> frames[i].content]) = response.content
           /\ k = 1 => /\ frames[n + 1].object = "chat.completion.files"
                       /\ frames[n + 1].files = response.files
                       /\ frames[n + 1].files_count = Len(response.files)
           /\ frames[Len(frames)] = DoneFrame

\* C10's case: a response of two words with artifacts was streamed.
C10_Witness ==
    /\ chunks # Absent
    /\ response.content = <<"a", " ", "a">>
    /\ Len(response.files) = 2
    /\ Len(chunks[1]) = 4

(***************************************************************************)
(* chat (copilot_service.py 320-374): the response text it chooses for the *)
(* outcome of _run_copilot_command (lines 349-358).                        *)
(***************************************************************************)

CopilotCliError == <<"C","o","p","i","l","o","t"," ","C","L","I"," ","e","r","r","o","r">>

\* A response that takes stdout whatever the exit code.
ResponseTextIgnoringCode(stdout, stderr, code) == _parse_copilot_output(stdout)

\* Lines 355-358.
ResponseText(stdout, stderr, code) ==
    IF code # 0
    THEN (IF stderr # <<>> THEN Strip(stderr) ELSE CopilotCliError)
    ELSE _parse_copilot_output(stdout)

\* Bounds and inputs of the specification of the response text.
MaxStdoutLen == 2
MaxStderrLen == 3
StdoutAlphabet == {"o", "\n"}
StderrAlphabet == {"e", " ", "\n"}
ExitCodes == {0, 1, 2, -9}

InitOutcome ==
    /\ outcome \in [stdout : SeqUpTo(StdoutAlphabet, MaxStdoutLen),
                    stderr : SeqUpTo(StderrAlphabet, MaxStderrLen),
                    code : ExitCodes]
    /\ response_text = Absent
    /\ LifeIdle /\ PromptIdle /\ ParseIdle /\ ScanIdle /\ StreamIdle /\ HttpIdle

\* Lines 355-358 on the tuple that line 349 received.
ChooseResponseText ==
    /\ response_text = Absent
    /\ response_text' =
           Present(ResponseText(outcome.stdout, outcome.stderr, outcome.code))
    /\ UNCHANGED <<outcome, lifeVars, promptVars, parseVars, scanVars, streamVars,
                   httpVars>>

NextOutcome == ChooseResponseText

SpecOutcome == InitOutcome /\ [][NextOutcome]_vars

\* t is s without its leading and trailing whitespace.
IsTrimOf(t, s) ==
    \/ t = <<>> /\ \A i \in 1..Len(s) : s[i] \in Whitespace
    \/ \E i, j \in 1..Len(s) :
          /\ i <= j /\ t = SubSeq(s, i, j)
          /\ s[i] \notin Whitespace /\ s[j] \notin Whitespace
          /\ \A k \in 1..(i - 1) : s[k] \in Whitespace
          /\ \A k \in (j + 1)..Len(s) : s[k] \in Whitespace

\* C6 as stated: the content is the trimmed stderr whenever the exit code is
\* not zero, and the sanitized stdout whenever it is zero.
C6_StderrOnNonZero ==
    response_text # Absent =>
        /\ outcome.code # 0 => IsTrimOf(response_text[1], outcome.stderr)
        /\ outcome.code = 0 => response_text[1] = _parse_copilot_output(outcome.stdout)

\* C6, amended: on a non-zero exit code the content is the trimmed stderr when
\* stderr is not empty and the fixed text "Copilot CLI error" when it is empty;
\* on exit code zero it is the sanitized stdout.
C6_StderrOrFixedText ==
    response_text # Absent =>
        /\ (outcome.code # 0 /\ outcome.stderr # <<>>)
              => IsTrimOf(response_text[1], outcome.stderr)
        /\ (outcome.code # 0 /\ outcome.stderr = <<>>)
              => response_text[1] = CopilotCliError
        /\ outcome.code = 0 => response_text[1] = _parse_copilot_output(outcome.stdout)

\* C6's case: the CLI exited 2 with a stderr in whitespace and a stdout, and
\* the response text is the trimmed stderr.
C6_Witness ==
    /\ response_text # Absent
    /\ outcome.code = 2
    /\ outcome.stderr = <<" ", "e", "\n">>
    /\ outcome.stdout = <<"o">>
    /\ response_text[1] = <<"e">>

(***************************************************************************)
(* The workspace lifecycle (copilot_service.py 64-79 and 320-374).         *)
(*                                                                         *)
(* fs maps every path the service can name under the temp root to a        *)
(* directory: whether it exists, its inode number ino (here the number of   *)
(* the call whose makedirs created it, 0 for none), which tells it from a  *)
(* later directory of the same path, its tree, the files below it in the    *)
(* order Path.rglob("*") yields them (a directory's own files before those *)
(* of its subdirectories), and its walk, the paths of the same files in the *)
(* order shutil.rmtree meets them (os.scandir order, a subdirectory         *)
(* emptied where it is listed among the files of its parent).  A file is   *)
(* an entry of the scanner with one more field, removable: FALSE when      *)
(* unlinking it fails, as for a file in a directory the CLI left without   *)
(* write permission.                                                       *)
(***************************************************************************)

\* The first 8 characters of a uuid4: two of the values a draw can give.
WorkspaceIds == {"1a2b3c4d", "9f8e7d6c"}

TempDir == "/tmp"

\* A path that is the same for every identifier.
WorkspacePathFixed(workspace_id) == <<TempDir, <<"copilot_workspace_", "00000000">>>>

\* Line 67.
WorkspacePath(workspace_id) == <<TempDir, <<"copilot_workspace_", workspace_id>>>>

\* os.path.basename, line 368.
Basename(path) == path[2]

WorkspacePaths == {WorkspacePath(i) : i \in WorkspaceIds}

NoDirectory == [exists |-> FALSE, ino |-> 0, tree |-> <<>>, walk |-> <<>>]

\* os.makedirs(path, exist_ok=True), line 68; a directory it creates gets the
\* inode number ino.
makedirs(fsys, path, ino) ==
    IF fsys[path].exists THEN fsys
    ELSE [fsys EXCEPT ![path] =
             [exists |-> TRUE, ino |-> ino, tree |-> <<>>, walk |-> <<>>]]

\* Lines 64-70, for the identifier that line 66 drew.
_create_temp_workspace(fsys, workspace_id, ino) ==
    [fs |-> makedirs(fsys, WorkspacePath(workspace_id), ino),
     workspace_path |-> WorkspacePath(workspace_id)]

\* The entry of a tree that has the path p.
EntryAt(tree, p) ==
    tree[CHOOSE i \in 1..Len(tree) : Append(tree[i].dirs, tree[i].name) = p]

\* What a call of a function gives its caller: a value, or an exception.
Return(v) == [raised |-> FALSE, value |-> v]
Raise(exc) == [raised |-> TRUE, exc |-> exc]

\* shutil.rmtree(path), line 76, is a sequence of system calls, and other
\* requests run between them.  Its first step: os.lstat and os.open of the
\* path and os.scandir of the directory opened.  It raises where the path
\* names no directory, and otherwise holds the directory it opened, known by
\* its inode number, and the entries listed, in the order of the walk.
rmtree_open(fsys, path) ==
    IF ~fsys[path].exists THEN Raise("FileNotFoundError")
    ELSE Return([ino |-> fsys[path].ino, todo |-> fsys[path].walk])

\* os.unlink of the listed entry p below the directory that was opened: it
\* raises FileNotFoundError where that directory or the entry is no more, and
\* PermissionError where the entry cannot be unlinked.
unlink(fsys, path, ino, p) ==
    LET dir == fsys[path]
    IN IF \/ ~dir.exists
          \/ dir.ino # ino
          \/ \A i \in 1..Len(dir.tree) : EntryPath(dir.tree[i]) # p
       THEN [fs |-> fsys, raised |-> TRUE]
       ELSE IF ~EntryAt(dir.tree, p).removable
       THEN [fs |-> fsys, raised |-> TRUE]
       ELSE [fs |-> [fsys EXCEPT
                        ![path].tree =
                            SelectSeq(dir.tree, LAMBDA f : EntryPath(f) # p),
                        ![path].walk = SelectSeq(dir.walk, LAMBDA q : q # p)],
             raised |-> FALSE]

\* os.rmdir(path), the last step of shutil.rmtree, made by path after the
\* directory was closed: it raises where the path names no directory and
\* where the directory is not empty.
rmdir(fsys, path) ==
    IF fsys[path].exists /\ fsys[path].tree = <<>>
    THEN [fs |-> [fsys EXCEPT ![path] = NoDirectory], raised |-> FALSE]
    ELSE [fs |-> fsys, raised |-> TRUE]

\* The unlinks of shutil.rmtree over the entries it listed, with nothing
\* running between them: the first failure raises and leaves in place the
\* file that failed and every file not met yet.
RECURSIVE rmtree_entries(_, _, _, _)
rmtree_entries(fsys, path, ino, todo) ==
    IF todo = <<>> THEN [fs |-> fsys, raised |-> FALSE]
    ELSE LET r == unlink(fsys, path, ino, Head(todo))
         IN IF r.raised THEN r
            ELSE rmtree_entries(r.fs, path, ino, Tail(todo))

\* shutil.rmtree(path), line 76, with nothing running between its steps.
rmtree(fsys, path) ==
    LET opened == rmtree_open(fsys, path)
    IN IF opened.raised THEN [fs |-> fsys, raised |-> TRUE]
       ELSE LET emptied == rmtree_entries(fsys, path, opened.value.ino,
                                          opened.value.todo)
            IN IF emptied.raised THEN emptied ELSE rmdir(emptied.fs, path)

\* Lines 77-79: whatever the removal raised is logged as a warning and
\* nothing leaves _cleanup_workspace.
CleanupExcept(removal) ==
    [fs |-> removal.fs, raised |-> FALSE, warned |-> removal.raised]

\* A cleanup with no try/except around the removal.
_cleanup_workspace_unguarded(fsys, workspace_path) ==
    IF fsys[workspace_path].exists
    THEN LET r == rmtree(fsys, workspace_path)
         IN [fs |-> r.fs, raised |-> r.raised, warned |-> FALSE]
    ELSE [fs |-> fsys, raised |-> FALSE, warned |-> FALSE]

\* Lines 72-79 with nothing running between the steps: the file system it
\* leaves, whether an exception leaves it (never), and whether it logged the
\* warning of line 79.
_cleanup_workspace(fsys, workspace_path) ==
    IF fsys[workspace_path].exists
    THEN CleanupExcept(rmtree(fsys, workspace_path))
    ELSE [fs |-> fsys, raised |-> FALSE, warned |-> FALSE]

\* A JSON value of the messages list that is no object, as a string is.
JsonString(text) == [str |-> text]
IsDict(msg) == "str" \notin DOMAIN msg

\* Line 346: msg.get of line 381 raises on an element that is no dict.
BuildPromptCall(msgs) ==
    IF \A i \in 1..Len(msgs) : IsDict(msgs[i])
    THEN Return(_build_prompt(msgs))
    ELSE Raise("AttributeError")

\* len(text.split()), lines 440-442.
WordCount(text) ==
    Cardinality({i \in 1..Len(text) :
        /\ text[i] \notin Whitespace
        /\ (i = 1 \/ text[i - 1] \in Whitespace)})

\* Line 54.
DefaultModel == "claude-sonnet-4"

\* Lines 426-452, but for "created", the time of the call.
_format_response_with_files(prompt_, response_, model, files, workspace_id) ==
    [id |-> <<"copilot-">> \o workspace_id,
     object |-> "chat.completion",
     model |-> <<"github-copilot-", model>>,
     role |-> "assistant",
     content |-> response_,
     finish_reason |-> "stop",
     prompt_tokens |-> WordCount(prompt_),
     completion_tokens |-> WordCount(response_),
     total_tokens |-> WordCount(prompt_) + WordCount(response_),
     files |-> files,
     files_count |-> Len(files),
     workspace_id |-> workspace_id,
     cli_version |-> "copilot-cli",
     metadata_model |-> model,
     workspace_used |-> TRUE]

\* The message of the exception of lines 271-277.
CliNotFound ==
    "GitHub Copilot CLI not found. Please install it:\n- Windows: winget install GitHub.Copilot\n- macOS/Linux: brew install copilot-cli\n- npm: npm install -g @github/copilot\nThen set GH_TOKEN with a PAT that has 'Copilot Requests' permission"

\* A finally clause that runs only when the try block returned.
FinallyClauseOnReturn(fsys, workspace_path, keep_workspace, staged) ==
    IF keep_workspace \/ staged.raised
    THEN [fs |-> fsys, cleanups |-> <<>>, warned |-> FALSE, delivered |-> staged]
    ELSE LET r == _cleanup_workspace(fsys, workspace_path)
         IN [fs |-> r.fs, cleanups |-> <<workspace_path>>, warned |-> r.warned,
             delivered |-> IF r.raised THEN Raise("OSError") ELSE staged]

\* Lines 371-374, entered with the return value or the exception that the try
\* block staged: the file system it leaves, the paths it called
\* _cleanup_workspace on, whether that logged a warning, and what chat()
\* delivers; an exception leaving the clause would replace what was staged.
FinallyClause(fsys, workspace_path, keep_workspace, staged) ==
    IF keep_workspace
    THEN [fs |-> fsys, cleanups |-> <<>>, warned |-> FALSE, delivered |-> staged]
    ELSE LET r == _cleanup_workspace(fsys, workspace_path)
         IN [fs |-> r.fs, cleanups |-> <<workspace_path>>, warned |-> r.warned,
             delivered |-> IF r.raised THEN Raise("OSError") ELSE staged]

\* Bounds and inputs of the lifecycle.
NumCalls == 2
MaxCliWrites == 1
Calls == 1..NumCalls

ChatMessages ==
    {<<[role |-> "user", content |-> <<"h","i">>]>>,
     <<[role |-> "user", content |-> <<"h","i">>], JsonString(<<"h","i">>)>>}

\* What the CLI of a call can print and exit with.
CliOutcomes ==
    {[stdout |-> <<"o","k">>, stderr |-> <<>>, code |-> 0],
     [stdout |-> <<"o","k">>, stderr |-> <<"e","r","r","\n">>, code |-> 2],
     [stdout |-> <<>>, stderr |-> <<>>, code |-> 1]}

\* What the CLI of call c writes into a file: the digit of c.
CliContent(c) == <<48 + c>>

\* The files the CLI of call c can leave below its working directory: one in
\* the directory itself, one in a subdirectory it left without write
\* permission (listed and read, not unlinked), one in a subdirectory it left
\* without search permission (listed, but stat fails with EACCES, and not
\* unlinked).
CliFiles(c) ==
    LET file == [name |-> <<"a",".","p","y">>, is_file |-> TRUE, size |-> 1,
                 bytes |-> CliContent(c)]
    IN {file @@ [dirs |-> <<>>, fails |-> "none", removable |-> TRUE],
        file @@ [dirs |-> <<<<"r","o">>>>, fails |-> "none", removable |-> FALSE],
        file @@ [dirs |-> <<<<"n","x">>>>, fails |-> "denied", removable |-> FALSE]}

\* The directory components of a path.
DirsOf(p) == SubSeq(p, 1, Len(p) - 1)

\* d is the directory e or one above it.
IsPrefix(d, e) == Len(d) <= Len(e) /\ SubSeq(e, 1, Len(d)) = d

\* The deepest directory that holds both d and e.
CommonDir(d, e) ==
    LET n == CHOOSE n \in 0..Len(d) :
                 /\ n <= Len(e) /\ SubSeq(d, 1, n) = SubSeq(e, 1, n)
                 /\ \A m \in (n + 1)..Len(d) :
                       ~(m <= Len(e) /\ SubSeq(d, 1, m) = SubSeq(e, 1, m))
    IN SubSeq(d, 1, n)

\* The order of Path.rglob("*") in Python 3.11: the files of one directory
\* stand together, and before the files below its subdirectories.
RglobOrdered(tree) ==
    /\ \A i, j \in 1..Len(tree) :
          i < j => ~(IsPrefix(tree[j].dirs, tree[i].dirs)
                       /\ tree[j].dirs # tree[i].dirs)
    /\ \A i, j, k \in 1..Len(tree) :
          (i < j /\ j < k /\ tree[i].dirs = tree[k].dirs)
             => tree[j].dirs = tree[i].dirs

\* The place of the path p in a walk.
PlaceIn(walk, p) == CHOOSE i \in 1..Len(walk) : walk[i] = p

\* A walk of shutil.rmtree over the files of a tree: it meets each file once,
\* has met everything below a subdirectory before it goes on in the parent,
\* and takes the files of one directory, and two subdirectories, in the order
\* rglob does, both being the order of os.scandir.
IsWalkOf(walk, tree) ==
    /\ Len(walk) = Len(tree)
    /\ \A i \in 1..Len(tree) :
          \E k \in 1..Len(walk) : walk[k] = Append(tree[i].dirs, tree[i].name)
    /\ \A a, b, c \in 1..Len(walk) :
          (a < b /\ b < c)
             => IsPrefix(CommonDir(DirsOf(walk[a]), DirsOf(walk[c])), DirsOf(walk[b]))
    /\ \A i, j \in 1..Len(tree) :
          (i < j /\ ~(IsPrefix(tree[i].dirs, tree[j].dirs)
                        /\ tree[i].dirs # tree[j].dirs))
             => PlaceIn(walk, Append(tree[i].dirs, tree[i].name))
                  < PlaceIn(walk, Append(tree[j].dirs, tree[j].name))

\* A directory after the file f was written below it: replaced where its path
\* was listed, and otherwise listed after k of the files in the tree and
\* after w of them in the walk, wherever the file system puts a new name.
WriteFile(dir, f, k, w) ==
    IF \E i \in 1..Len(dir.tree) : EntryPath(dir.tree[i]) = EntryPath(f)
    THEN [dir EXCEPT !.tree =
             [i \in 1..Len(dir.tree) |->
                 IF EntryPath(dir.tree[i]) = EntryPath(f) THEN f ELSE dir.tree[i]]]
    ELSE [dir EXCEPT
             !.tree = SubSeq(dir.tree, 1, k) \o <<f>>
                          \o SubSeq(dir.tree, k + 1, Len(dir.tree)),
             !.walk = SubSeq(dir.walk, 1, w) \o <<EntryPath(f)>>
                          \o SubSeq(dir.walk, w + 1, Len(dir.walk))]

\* The locals of a chat() call that has not been made; dir_ino and todo are
\* those of its shutil.rmtree: the directory it opened and the entries it
\* listed and has not met yet.
NotCalled ==
    [workspace_id |-> Absent, workspace_path |-> Absent, workspace_ino |-> 0,
     keep_workspace |-> FALSE, model |-> Absent, prompt |-> Absent,
     response_text |-> Absent, staged |-> Absent, delivered |-> Absent,
     cleanups |-> <<>>, warned |-> FALSE, written |-> 0,
     dir_ino |-> 0, todo |-> <<>>]

Init ==
    /\ pc = [c \in Calls |-> "idle"]
    /\ call = [c \in Calls |-> NotCalled]
    /\ fs = [p \in WorkspacePaths |-> NoDirectory]
    /\ PromptIdle /\ ParseIdle /\ ScanIdle /\ StreamIdle /\ OutcomeIdle /\ HttpIdle

LifeUnchanged ==
    UNCHANGED <<promptVars, parseVars, scanVars, streamVars, outcomeVars, httpVars>>

PathOf(c) == call[c].workspace_path[1]

\* Line 351: model or self._default_model.
ModelOrDefault(model) ==
    IF model # Absent /\ model[1] # "" THEN model[1] ELSE DefaultModel

\* Lines 342-346: chat(msgs, model, keep_workspace) is called, creates its
\* workspace under the identifier it draws and builds the prompt.
ChatEnterWith(c, msgs, model, keep_workspace) ==
    /\ pc[c] = "idle"
    /\ \E workspace_id \in WorkspaceIds :
          LET created == _create_temp_workspace(fs, workspace_id, c)
              built == BuildPromptCall(msgs)
          IN /\ fs' = created.fs
             /\ call' = [call EXCEPT ![c] =
                    [@ EXCEPT !.workspace_id = Present(workspace_id),
                              !.workspace_path = Present(created.workspace_path),
                              !.workspace_ino =
                                  created.fs[created.workspace_path].ino,
                              !.keep_workspace = keep_workspace,
                              !.model = model,
                              !.prompt = IF built.raised THEN Absent
                                         ELSE Present(built.value),
                              !.staged = IF built.raised THEN Present(built)
                                         ELSE Absent]]
             /\ pc' = [pc EXCEPT ![c] = IF built.raised THEN "finally" ELSE "spawn"]
    /\ LifeUnchanged

\* chat() called with any messages and keep_workspace and no model.  Calls are
\* made in the order of their numbers.
ChatEnter(c) ==
    /\ IF c = 1 THEN TRUE ELSE pc[c - 1] # "idle"
    /\ \E keep_workspace \in BOOLEAN, msgs \in ChatMessages :
          ChatEnterWith(c, msgs, Absent, keep_workspace)

\* What create_subprocess_exec can give for the configured executable: a
\* process, FileNotFoundError where no such file is found, PermissionError
\* where the file may not be executed, NotADirectoryError where the path
\* leads through a regular file, and OSError for every other errno of the
\* exec, as ENOEXEC is for a file that is no program.
SpawnErrors ==
    {"", "FileNotFoundError", "PermissionError", "NotADirectoryError", "OSError"}

\* Lines 254-260 and 270-277: the subprocess is created in the workspace, or
\* FileNotFoundError, raised for a missing executable and for a missing
\* working directory alike, becomes the exception of line 271; any other
\* error of the creation has no except clause and leaves the try block.
ChatSpawn(c) ==
    /\ pc[c] = "spawn"
    /\ \E error \in SpawnErrors :
          IF error = "" /\ fs[PathOf(c)].exists
          THEN /\ pc' = [pc EXCEPT ![c] = "running"]
               /\ UNCHANGED call
          ELSE IF error = "FileNotFoundError" \/ ~fs[PathOf(c)].exists
          THEN /\ pc' = [pc EXCEPT ![c] = "finally"]
               /\ call' = [call EXCEPT ![c].staged = Present(Raise(CliNotFound))]
          ELSE /\ pc' = [pc EXCEPT ![c] = "finally"]
               /\ call' = [call EXCEPT ![c].staged = Present(Raise(error))]
    /\ UNCHANGED fs
    /\ LifeUnchanged

\* The CLI of a call, run with --allow-all-tools (line 248), writes a file
\* below its working directory while chat() awaits it at line 262.
CliWrite(c) ==
    /\ pc[c] = "running"
    /\ call[c].written < MaxCliWrites
    /\ fs[PathOf(c)].exists
    /\ \E f \in CliFiles(c), k, w \in 0..Len(fs[PathOf(c)].tree) :
          LET written == WriteFile(fs[PathOf(c)], f, k, w)
          IN /\ RglobOrdered(written.tree)
             /\ IsWalkOf(written.walk, written.tree)
             /\ fs' = [fs EXCEPT ![PathOf(c)] = written]
    /\ call' = [call EXCEPT ![c].written = @ + 1]
    /\ UNCHANGED pc
    /\ LifeUnchanged

\* Lines 262-268 and 355-358: the CLI exits, and with it the count of what it
\* wrote, and the response text is chosen.
ChatCliExit(c) ==
    /\ pc[c] = "running"
    /\ \E o \in CliOutcomes :
          call' = [call EXCEPT ![c] =
                      [@ EXCEPT !.response_text =
                                    Present(ResponseText(o.stdout, o.stderr, o.code)),
                                !.written = 0]]
    /\ pc' = [pc EXCEPT ![c] = "scan"]
    /\ UNCHANGED fs
    /\ LifeUnchanged

\* Lines 361-369: the workspace is scanned and the response formatted; the
\* scan's exception, or one raised while formatting (as MemoryError is when
\* the dict cannot be allocated), leaves the try block.
ChatScan(c) ==
    /\ pc[c] = "scan"
    /\ \E out_of_memory \in BOOLEAN :
          LET files_created == _scan_workspace_files(fs[PathOf(c)].tree)
              formatted ==
                  _format_response_with_files(
                      call[c].prompt[1], call[c].response_text[1],
                      ModelOrDefault(call[c].model),
                      files_created.files, Basename(PathOf(c)))
          IN call' = [call EXCEPT ![c].staged =
                 Present(IF files_created.raised THEN Raise("PermissionError")
                         ELSE IF out_of_memory THEN Raise("MemoryError")
                         ELSE Return(formatted))]
    /\ pc' = [pc EXCEPT ![c] = "finally"]
    /\ UNCHANGED fs
    /\ LifeUnchanged

\* chat() of call c returns or raises what its try block staged, after the
\* cleanup of its finally clause ended as the record cleanup says; its locals
\* are no more.
ChatLeave(c, cleanups, cleanup) ==
    /\ fs' = cleanup.fs
    /\ call' = [call EXCEPT ![c] =
           [@ EXCEPT !.cleanups = cleanups, !.warned = cleanup.warned,
                     !.delivered = Present(IF cleanup.raised THEN Raise("OSError")
                                           ELSE call[c].staged[1]),
                     !.prompt = Absent, !.response_text = Absent,
                     !.dir_ino = 0, !.todo = <<>>]]
    /\ pc' = [pc EXCEPT ![c] = "done"]

\* Lines 371-374 and 72-75: the finally clause is entered.  With
\* keep_workspace, and where os.path.exists (line 74) finds no directory, it
\* has no further step and chat() returns or raises; otherwise
\* _cleanup_workspace has been called and goes on to shutil.rmtree.
ChatFinally(c) ==
    /\ pc[c] = "finally"
    /\ LET r == FinallyClause(fs, PathOf(c), call[c].keep_workspace,
                              call[c].staged[1])
       IN IF r.cleanups = <<>> \/ ~fs[PathOf(c)].exists
          THEN /\ fs' = r.fs
               /\ call' = [call EXCEPT ![c] =
                      [@ EXCEPT !.cleanups = r.cleanups, !.warned = r.warned,
                                !.delivered = Present(r.delivered),
                                !.prompt = Absent, !.response_text = Absent]]
               /\ pc' = [pc EXCEPT ![c] = "done"]
          ELSE /\ call' = [call EXCEPT ![c].cleanups = r.cleanups]
               /\ pc' = [pc EXCEPT ![c] = "rmtree_open"]
               /\ UNCHANGED fs
    /\ LifeUnchanged

\* Line 76, first step of shutil.rmtree: the directory is opened and listed,
\* or the failure is logged (lines 78-79) and chat() returns or raises.
ChatRmtreeOpen(c) ==
    /\ pc[c] = "rmtree_open"
    /\ LET opened == rmtree_open(fs, PathOf(c))
       IN IF opened.raised
          THEN ChatLeave(c, call[c].cleanups,
                         CleanupExcept([fs |-> fs, raised |-> TRUE]))
          ELSE /\ call' = [call EXCEPT ![c] =
                      [@ EXCEPT !.dir_ino = opened.value.ino,
                                !.todo = opened.value.todo]]
               /\ pc' = [pc EXCEPT ![c] = "rmtree"]
               /\ UNCHANGED fs
    /\ LifeUnchanged

\* Line 76, shutil.rmtree unlinks the next entry it listed, or the failure is
\* logged (lines 78-79) and chat() returns or raises.
ChatRmtreeUnlink(c) ==
    /\ pc[c] = "rmtree"
    /\ call[c].todo # <<>>
    /\ LET r == unlink(fs, PathOf(c), call[c].dir_ino, Head(call[c].todo))
       IN IF r.raised
          THEN ChatLeave(c, call[c].cleanups, CleanupExcept(r))
          ELSE /\ fs' = r.fs
               /\ call' = [call EXCEPT ![c].todo = Tail(@)]
               /\ UNCHANGED pc
    /\ LifeUnchanged

\* Line 76, last step of shutil.rmtree, and lines 77-79: every listed entry
\* is unlinked, os.rmdir removes the directory or fails and the failure is
\* logged, and chat() returns or raises.
ChatRmtreeRmdir(c) ==
    /\ pc[c] = "rmtree"
    /\ call[c].todo = <<>>
    /\ ChatLeave(c, call[c].cleanups, CleanupExcept(rmdir(fs, PathOf(c))))
    /\ LifeUnchanged

Next ==
    \/ \E c \in Calls : ChatEnter(c)
    \/ \E c \in Calls : ChatSpawn(c)
    \/ \E c \in Calls : CliWrite(c)
    \/ \E c \in Calls : ChatCliExit(c)
    \/ \E c \in Calls : ChatScan(c)
    \/ \E c \in Calls : ChatFinally(c)
    \/ \E c \in Calls : ChatRmtreeOpen(c)
    \/ \E c \in Calls : ChatRmtreeUnlink(c)
    \/ \E c \in Calls : ChatRmtreeRmdir(c)

Spec == Init /\ [][Next]_vars

Entered(c) == pc[c] # "idle"
InFlight(c) == pc[c] \notin {"idle", "done"}
Finished(c) == pc[c] = "done"

\* The finally clause of call c has called _cleanup_workspace, which has not
\* returned yet.
Removing(c) == pc[c] \in {"rmtree_open", "rmtree"}

\* C1: a finished chat() call made with keep_workspace false has made exactly
\* one cleanup attempt, on its own workspace path, whether it returned or
\* raised; one made with keep_workspace true has made none; no attempt is
\* made before the call reaches its finally clause; and an attempt under way
\* is the one attempt of a call made with keep_workspace false.
C1_ExactlyOneCleanup ==
    \A c \in Calls :
        /\ (Finished(c) /\ ~call[c].keep_workspace)
              => call[c].cleanups = <<PathOf(c)>>
        /\ (Finished(c) /\ call[c].keep_workspace) => call[c].cleanups = <<>>
        /\ (~Finished(c) /\ ~Removing(c)) => call[c].cleanups = <<>>
        /\ Removing(c)
              => (~call[c].keep_workspace /\ call[c].cleanups = <<PathOf(c)>>)

\* C1's case: one call has raised the exception of a CLI that was not found,
\* another has returned the stderr of a CLI that exited 2, and each has made
\* its one cleanup attempt.
C1_Witness ==
    \E c, d \in Calls :
        /\ Finished(c) /\ ~call[c].keep_workspace
        /\ call[c].delivered[1] = Raise(CliNotFound)
        /\ call[c].cleanups = <<PathOf(c)>>
        /\ Finished(d) /\ ~call[d].keep_workspace
        /\ ~call[d].delivered[1].raised
        /\ call[d].delivered[1].value.content = <<"e","r","r">>
        /\ call[d].cleanups = <<PathOf(d)>>

\* The directory that call c holds as its workspace is still there.
WorkspaceExists(c) ==
    fs[PathOf(c)].exists /\ fs[PathOf(c)].ino = call[c].workspace_ino

\* C2 as stated: whenever a call made with keep_workspace false has finished,
\* its workspace directory no longer exists.
C2_NoWorkspaceOutlives ==
    \A c \in Calls :
        (Finished(c) /\ ~call[c].keep_workspace) => ~WorkspaceExists(c)

\* What the code does, beside C2: a directory outlives only a request whose
\* removal failed and logged the warning of line 79.
RemovedUnlessRemovalFailed ==
    \A c \in Calls :
        (Finished(c) /\ ~call[c].keep_workspace /\ ~call[c].warned)
        => ~WorkspaceExists(c)

\* The files that the scan of call c returned, once chat() has staged its
\* return value.
ScannedBy(c) ==
    IF call[c].staged # Absent /\ ~call[c].staged[1].raised
    THEN call[c].staged[1].value.files
    ELSE <<>>

\* Every file that the scan of call c returned holds what the CLI of c writes.
ScannedOwnFiles(c) ==
    \A i \in 1..Len(ScannedBy(c)) :
        ScannedBy(c)[i].content_text = Present(CliContent(c))

\* C3 as stated: no two requests in flight hold the same workspace path; the
\* directory of a request that is invoking the CLI or scanning has not been
\* removed; and a scan returns only files that the request's own CLI created.
C3_NeverShared ==
    /\ \A c, d \in Calls :
          (c # d /\ InFlight(c) /\ InFlight(d)) => PathOf(c) # PathOf(d)
    /\ \A c \in Calls : pc[c] \in {"running", "scan"} => WorkspaceExists(c)
    /\ \A c \in Calls : ScannedOwnFiles(c)

\* No other call has drawn the identifier of call c.
DrewAlone(c) ==
    \A d \in Calls \ {c} : Entered(d) => call[d].workspace_id # call[c].workspace_id

\* C3, amended: requests that drew different identifiers hold different
\* workspace paths; and for a request whose identifier no other request has
\* drawn, the directory is there for as long as the request creates its
\* subprocess, invokes the CLI or scans, and its scan returns only files that
\* its own CLI created.
C3_SharedOnlyByEqualIdentifiers ==
    /\ \A c, d \in Calls :
          (Entered(c) /\ Entered(d) /\ call[c].workspace_id # call[d].workspace_id)
          => PathOf(c) # PathOf(d)
    /\ \A c \in Calls :
          (Entered(c) /\ DrewAlone(c)) =>
              /\ pc[c] \in {"spawn", "running", "scan"} => WorkspaceExists(c)
              /\ ScannedOwnFiles(c)

\* C3's case: two requests that drew different identifiers are in flight, the
\* CLI of each has written a file, one request has scanned and staged exactly
\* the file of its own CLI, and the other is still invoking its CLI.
C3_Witness ==
    \E c, d \in Calls :
        /\ call[c].workspace_id # call[d].workspace_id
        /\ pc[c] = "finally" /\ pc[d] = "running"
        /\ Len(ScannedBy(c)) = 1
        /\ ScannedBy(c)[1].content_text = Present(CliContent(c))
        /\ fs[PathOf(d)].tree # <<>>
        /\ WorkspaceExists(c) /\ WorkspaceExists(d)

\* Every entry of the tree at a path can be unlinked.
AllRemovable(fsys, path) ==
    \A i \in 1..Len(fsys[path].tree) : fsys[path].tree[i].removable

\* C4: on every file system the service reaches and every workspace path,
\* _cleanup_workspace raises nothing; it removes an existing tree whose
\* entries can all be unlinked, changes nothing where the directory is already
\* gone, and swallows a failing removal with a warning; a second call leaves
\* the state that the first left; and what a finished chat() delivered,
\* whatever other requests did between the steps of its cleanup, is the value
\* or exception that its try block staged.
C4_CleanupNeverRaises ==
    /\ \A path \in WorkspacePaths :
          LET once == _cleanup_workspace(fs, path)
              twice == _cleanup_workspace(once.fs, path)
          IN /\ ~once.raised /\ ~twice.raised
             /\ twice.fs = once.fs
             /\ ~fs[path].exists => (once.fs = fs /\ ~once.warned)
             /\ (fs[path].exists /\ AllRemovable(fs, path))
                   => (~once.fs[path].exists /\ ~once.warned)
             /\ (fs[path].exists /\ ~AllRemovable(fs, path)) => once.warned
    /\ \A c \in Calls :
          Finished(c) => call[c].delivered = call[c].staged

\* C4's case: a request whose CLI left a file that cannot be unlinked has
\* finished; its cleanup failed with a warning, the directory is still there,
\* and the request delivered the response it had staged, with that file.
C4_Witness ==
    \E c \in Calls :
        /\ Finished(c) /\ ~call[c].keep_workspace /\ call[c].warned
        /\ call[c].cleanups = <<PathOf(c)>>
        /\ WorkspaceExists(c) /\ ~AllRemovable(fs, PathOf(c))
        /\ ~call[c].delivered[1].raised
        /\ call[c].delivered[1].value.files_count = 1
        /\ call[c].delivered = call[c].staged

(***************************************************************************)
(* AuthService (auth_service.py 12-50).                                    *)
(***************************************************************************)

\* str.startswith(prefix) and s[n:].
StartsWith(s, prefix) ==
    Len(s) >= Len(prefix) /\ SubSeq(s, 1, Len(prefix)) = prefix
DropFirst(s, n) == SubSeq(s, n + 1, Len(s))

BearerPrefix == <<"B","e","a","r","e","r"," ">>
ApiKeyPrefix == <<"A","p","i","K","e","y"," ">>

\* A validation that accepts every header with the Bearer prefix.
validate_token_any_bearer(api_key, auth_header) ==
    IF api_key = <<>> THEN TRUE
    ELSE IF auth_header = Absent \/ auth_header[1] = <<>> THEN FALSE
    ELSE IF StartsWith(auth_header[1], BearerPrefix) THEN TRUE
    ELSE auth_header[1] = api_key

\* Lines 21-50, for the key that line 19 read: auth_header is None or a text.
validate_token(api_key, auth_header) ==
    IF api_key = <<>> THEN TRUE                                    \* line 32
    ELSE IF auth_header = Absent \/ auth_header[1] = <<>> THEN FALSE   \* line 36
    ELSE IF StartsWith(auth_header[1], BearerPrefix)               \* line 40
        THEN DropFirst(auth_header[1], Len(BearerPrefix)) = api_key
    ELSE IF StartsWith(auth_header[1], ApiKeyPrefix)               \* line 45
        THEN DropFirst(auth_header[1], Len(ApiKeyPrefix)) = api_key
    ELSE auth_header[1] = api_key                                  \* line 50

(***************************************************************************)
(* The function app (function_app.py): the four HTTP endpoints.            *)
(*                                                                         *)
(* A JSON object is a record, a JSON value that is no object is            *)
(* JsonString(text); a request body is the JSON text it holds, parsed or   *)
(* not parseable.  An HTTP response is its status code, its mimetype and   *)
(* the value its body serializes; a handler that lets an exception out     *)
(* returns no response, which is Uncaught(exc).                            *)
(***************************************************************************)

JsonResponse(status_code, body) ==
    [status_code |-> status_code, mimetype |-> "application/json", body |-> body]

EventStream(frames) ==
    [status_code |-> 200, mimetype |-> "text/event-stream", body |-> frames]

Uncaught(exc) == [status_code |-> 0, mimetype |-> "", body |-> [uncaught |-> exc]]

\* Lines 57-61, 69-73, 88-92 and 95-99 of chat; the same in stream.
Unauthorized == JsonResponse(401, [error |-> "Unauthorized"])
MessagesRequired == JsonResponse(400, [error |-> "Messages are required"])
InvalidJson == JsonResponse(400, [error |-> "Invalid JSON in request body"])
InternalServerError(exc) ==
    JsonResponse(500, [error |-> "Internal server error", details |-> exc])

\* req.get_json(), lines 64 and 133, a call into the azure.functions
\* library: the value of a body that is JSON text, and for every other body
\* the exception that decoding it raises, which the body carries.
get_json(body) ==
    IF body.parses THEN Return(body.value) ELSE Raise(body.error)

\* Lines 87-99 and 161-173: the except clauses, for the exception exc.  Only
\* json.JSONDecodeError has a clause of its own; every other exception, the
\* ValueErrors of get_json among them, is answered by the clause for Exception.
ExceptClauses(exc) ==
    IF exc = "JSONDecodeError" THEN InvalidJson ELSE InternalServerError(exc)

\* A test of the messages that lets every value through.
MessagesMissingNever(msgs) == FALSE

\* Lines 68 and 137: not messages.
MessagesMissing(msgs) == msgs = <<>>

\* Lines 55-73 and 124-142, up to the call of the service: the response that
\* ends the request there (ended |-> TRUE), or the arguments of the call.
BeforeService(api_key, req) ==
    IF ~validate_token(api_key, req.auth_header)
    THEN [ended |-> TRUE, reply |-> Unauthorized]
    ELSE LET parsed == get_json(req.body)
         IN IF parsed.raised
            THEN [ended |-> TRUE, reply |-> ExceptClauses(parsed.exc)]
            ELSE IF ~IsDict(parsed.value)      \* req_body.get, lines 65 and 134
            THEN [ended |-> TRUE, reply |-> ExceptClauses("AttributeError")]
            ELSE IF MessagesMissing(Get(parsed.value, "messages", <<>>))
            THEN [ended |-> TRUE, reply |-> MessagesRequired]
            ELSE [ended |-> FALSE,
                  messages |-> Get(parsed.value, "messages", <<>>),
                  model |-> IF "model" \in DOMAIN parsed.value
                            THEN Present(parsed.value.model) ELSE Absent]

\* Lines 81-85 of chat and 150-159 of stream, and the except clauses around
\* the call: the response for what the service delivered.
AfterService(endpoint, delivered) ==
    IF delivered.raised THEN ExceptClauses(delivered.exc)
    ELSE IF endpoint = "chat" THEN JsonResponse(200, delivered.value)
    ELSE EventStream(stream_chat(delivered.value))

\* get_available_models (copilot_service.py 524-581): the ids of the catalog.
get_available_models ==
    <<"claude-sonnet-4.5", "claude-sonnet-4", "claude-opus-4.5", "claude-haiku-4.5",
      "gpt-5", "gpt-5.1", "gpt-5.2", "gpt-5-mini", "gemini-3-pro-preview">>

\* Lines 208-231 of models.
models(api_key, req) ==
    IF ~validate_token(api_key, req.auth_header) THEN Unauthorized
    ELSE JsonResponse(200, [models |-> get_available_models])

GhTokenNotSet ==
    "GH_TOKEN or GITHUB_TOKEN not set. Create a PAT with 'Copilot Requests' permission."

\* check_copilot_available (copilot_service.py 279-318), for what creating and
\* awaiting the "--version" subprocess gave: the error that
\* create_subprocess_exec raised ("" for none), the return code and stdout.
\* Only FileNotFoundError has an except clause (line 314).
check_copilot_available(spawn, gh_token) ==
    IF spawn.error = "FileNotFoundError"
    THEN Return([available |-> FALSE, error |-> "Copilot CLI not found. Install with: winget install GitHub.Copilot"])
    ELSE IF spawn.error # "" THEN Raise(spawn.error)
    ELSE IF spawn.returncode # 0
    THEN Return([available |-> FALSE, error |-> "Copilot CLI not installed"])
    ELSE IF gh_token = <<>>
    THEN Return([available |-> FALSE, error |-> GhTokenNotSet,
                 version |-> Strip(spawn.stdout), has_token |-> FALSE])
    ELSE Return([available |-> TRUE, version |-> Strip(spawn.stdout),
                 has_token |-> TRUE, default_model |-> DefaultModel])

\* Lines 183-196 of health, which has no try block.
health(copilot_status) ==
    IF copilot_status.raised THEN Uncaught(copilot_status.exc)
    ELSE LET status == IF Get(copilot_status.value, "available", FALSE)
                       THEN "healthy" ELSE "degraded"
         IN JsonResponse(IF status = "healthy" THEN 200 ELSE 503,
                         [status |-> status, service |-> "github-copilot-api",
                          version |-> "2.0.0", copilot |-> copilot_status.value])

\* Inputs of the specification of the function app: configured keys, headers
\* made of a prefix and a token, request bodies, and what the "--version"
\* subprocess of the probe can give.
AuthKeys == {<<>>, <<"k">>, BearerPrefix \o <<"k">>}
AuthTokens == {<<>>, <<"k">>, <<"x">>, BearerPrefix \o <<"k">>}
AuthPrefixes == {<<>>, BearerPrefix, ApiKeyPrefix, <<"b","e","a","r","e","r"," ">>}
AuthHeaders == {Absent} \cup {Present(p \o t) : p \in AuthPrefixes, t \in AuthTokens}
GhTokens == {<<>>, <<"t">>}

\* What get_json can raise for a body that is no JSON text:
\* json.JSONDecodeError from json.loads, UnicodeDecodeError for bytes that are
\* not UTF-8, and the plain ValueError the library raises in place of either
\* for a body it holds as bytes.
GetJsonErrors == {"JSONDecodeError", "UnicodeDecodeError", "ValueError"}
Undecodable(error) == [parses |-> FALSE, error |-> error]
NotJson == Undecodable("JSONDecodeError")
JsonBody(v) == [parses |-> TRUE, value |-> v]
ChatBodies ==
    {Undecodable(error) : error \in GetJsonErrors}
        \cup
    {JsonBody(JsonString(<<"h","i">>)), JsonBody([model |-> "gpt-5"]),
     JsonBody([messages |-> <<>>]), JsonBody([messages |-> <<>>, model |-> "gpt-5"])}
        \cup {JsonBody([messages |-> m]) : m \in ChatMessages}
        \cup {JsonBody([messages |-> m, model |-> model]) :
                 m \in ChatMessages, model \in {"gpt-5", ""}}

Requests ==
    [endpoint : {"chat", "stream"}, auth_header : AuthHeaders, body : ChatBodies]
        \cup [endpoint : {"models", "health"}, auth_header : AuthHeaders,
              body : {NotJson}]

VersionSpawns ==
    {[error |-> "FileNotFoundError", returncode |-> 0, stdout |-> <<>>],
     [error |-> "PermissionError", returncode |-> 0, stdout |-> <<>>],
     [error |-> "NotADirectoryError", returncode |-> 0, stdout |-> <<>>],
     [error |-> "OSError", returncode |-> 0, stdout |-> <<>>],
     [error |-> "", returncode |-> 0, stdout |-> <<"1",".","0","\n">>],
     [error |-> "", returncode |-> 1, stdout |-> <<"1",".","0","\n">>],
     [error |-> "", returncode |-> -9, stdout |-> <<>>]}

\* The services are built (function_app.py 17-18) and one request arrives; no
\* workspace exists, no chat() call has been made and the health handler
\* stands at no await.
InitHttp ==
    /\ config \in [api_key : AuthKeys, gh_token : GhTokens]
    /\ request \in Requests
    /\ reply = Absent
    /\ probe = Absent
    /\ pc = [c \in Calls |-> "idle"]
    /\ call = [c \in Calls |-> NotCalled]
    /\ fs = [p \in WorkspacePaths |-> NoDirectory]
    /\ PromptIdle /\ ParseIdle /\ ScanIdle /\ StreamIdle /\ OutcomeIdle

HttpUnchanged ==
    UNCHANGED <<config, request, probe, lifeVars, promptVars, parseVars,
                scanVars, streamVars, outcomeVars>>

\* chat and stream, lines 53-79 and 122-148: the request is answered before
\* the service is called, or chat() is entered as call 1 (stream_chat calls it
\* at line 490 of copilot_service.py) with keep_workspace left False.
HttpReceive ==
    /\ request.endpoint \in {"chat", "stream"}
    /\ reply = Absent
    /\ pc[1] = "idle"
    /\ LET before == BeforeService(config.api_key, request)
       IN IF before.ended
          THEN reply' = Present(before.reply) /\ HttpUnchanged
          ELSE ChatEnterWith(1, before.messages, before.model, FALSE)

\* chat and stream, lines 81-99 and 150-173: chat() has returned or raised and
\* the response is made.
HttpRespond ==
    /\ request.endpoint \in {"chat", "stream"}
    /\ reply = Absent
    /\ pc[1] = "done"
    /\ reply' = Present(AfterService(request.endpoint, call[1].delivered[1]))
    /\ HttpUnchanged

\* models, lines 206-231.
HttpModels ==
    /\ request.endpoint = "models"
    /\ reply = Absent
    /\ reply' = Present(models(config.api_key, request))
    /\ HttpUnchanged

HealthUnchanged ==
    UNCHANGED <<config, request, lifeVars, promptVars, parseVars, scanVars,
                streamVars, outcomeVars>>

\* health, line 183, and check_copilot_available up to its first await
\* (copilot_service.py 283): the handler asks for the "--version" subprocess
\* and returns to the event loop.
HttpHealthEnter ==
    /\ request.endpoint = "health"
    /\ reply = Absent
    /\ probe = Absent
    /\ probe' = Present("create_subprocess_exec")
    /\ UNCHANGED reply
    /\ HealthUnchanged

\* copilot_service.py 283-289: create_subprocess_exec raises, and the handler
\* answers with the report of line 314 or lets the exception out, or it gives
\* the process, and the handler awaits its exit at line 289.
HttpHealthSpawn ==
    /\ probe = Present("create_subprocess_exec")
    /\ \E spawn \in VersionSpawns :
          IF spawn.error # ""
          THEN /\ reply' = Present(health(check_copilot_available(
                                              spawn, config.gh_token)))
               /\ probe' = Absent
          ELSE /\ probe' = Present("communicate")
               /\ UNCHANGED reply
    /\ HealthUnchanged

\* copilot_service.py 289-312 and function_app.py 185-196: the subprocess has
\* exited, and the report is made and answered with no further await.
HttpHealthExit ==
    /\ probe = Present("communicate")
    /\ \E spawn \in VersionSpawns :
          /\ spawn.error = ""
          /\ reply' = Present(health(check_copilot_available(
                                         spawn, config.gh_token)))
    /\ probe' = Absent
    /\ HealthUnchanged

\* While the health request is handled, another request to chat passes the
\* checks of lines 55-73 and enters the service as call 1; the steps of its
\* chat() call fall between those of the health handler.
HttpOtherReceive ==
    /\ request.endpoint = "health"
    /\ pc[1] = "idle"
    /\ \E msgs \in ChatMessages : ChatEnterWith(1, msgs, Absent, FALSE)

NextHttp ==
    \/ HttpReceive
    \/ ChatSpawn(1)
    \/ CliWrite(1)
    \/ ChatCliExit(1)
    \/ ChatScan(1)
    \/ ChatFinally(1)
    \/ ChatRmtreeOpen(1)
    \/ ChatRmtreeUnlink(1)
    \/ ChatRmtreeRmdir(1)
    \/ HttpRespond
    \/ HttpModels
    \/ HttpHealthEnter
    \/ HttpHealthSpawn
    \/ HttpHealthExit
    \/ HttpOtherReceive

SpecHttp == InitHttp /\ [][NextHttp]_vars

\* The request has been answered.
Answered == reply # Absent

\* The header is "Bearer X" for a text X other than the key.
BearerOfOtherThan(auth_header, key) ==
    /\ auth_header # Absent
    /\ StartsWith(auth_header[1], BearerPrefix)
    /\ DropFirst(auth_header[1], Len(BearerPrefix)) # key

\* C11: an answered request to chat, stream or models is not answered with
\* 401 when no key is configured, whatever its header, nor when the header is
\* "Bearer K" for the configured non-empty key K; it is answered with the 401
\* "Unauthorized" object when a non-empty key is configured and the header is
\* absent or is "Bearer X" for an X other than K.  A request answered with 401
\* never entered the service.
C11_BearerKeyGate ==
    (Answered /\ request.endpoint \in {"chat", "stream", "models"}) =>
        LET K == config.api_key
            h == request.auth_header
        IN /\ K = <<>> => reply[1].status_code # 401
           /\ (K # <<>> /\ h = Present(BearerPrefix \o K))
                 => reply[1].status_code # 401
           /\ (K # <<>> /\ (h = Absent \/ BearerOfOtherThan(h, K)))
                 => (reply[1] = Unauthorized /\ pc[1] = "idle")

\* C11's case: with the key "k" configured, a chat request whose header is
\* "Bearer k" went through the service and was answered with 200.
C11_Witness ==
    /\ Answered /\ request.endpoint = "chat"
    /\ config.api_key = <<"k">>
    /\ request.auth_header = Present(BearerPrefix \o <<"k">>)
    /\ pc[1] = "done"
    /\ reply[1].status_code = 200

\* The probe returned a report and the report says available.
ReportsAvailable(copilot_status) ==
    ~copilot_status.raised /\ Get(copilot_status.value, "available", FALSE)

\* C12: an answered health request is answered either with 200, status
\* "healthy" and a probe report that says available, or with 503, status
\* "degraded" and a probe report that does not; the report says available only
\* with a non-empty token configured; and for everything the "--version"
\* invocation can give and every token, the probe reports available exactly
\* when the invocation was made, exited 0 and the token is not empty, a
\* report made without a token carries a diagnostic, and a missing binary or
\* a non-zero exit is reported as not available whatever the token.
C12_HealthFollowsProbe ==
    /\ (Answered /\ request.endpoint = "health") =>
          LET r == reply[1]
          IN /\ \/ /\ r.status_code = 200
                   /\ r.body.status = "healthy"
                   /\ r.body.copilot.available
                \/ /\ r.status_code = 503
                   /\ r.body.status = "degraded"
                   /\ ~r.body.copilot.available
             /\ r.body.copilot.available => config.gh_token # <<>>
    /\ \A spawn \in VersionSpawns, gh_token \in GhTokens :
          LET copilot_status == check_copilot_available(spawn, gh_token)
          IN /\ ReportsAvailable(copilot_status)
                   <=> (spawn.error = "" /\ spawn.returncode = 0 /\ gh_token # <<>>)
             /\ (spawn.error = "" /\ spawn.returncode = 0 /\ gh_token = <<>>)
                   => /\ ~copilot_status.raised
                      /\ ~copilot_status.value.available
                      /\ copilot_status.value.error = GhTokenNotSet
             /\ (spawn.error = "FileNotFoundError"
                     \/ (spawn.error = "" /\ spawn.returncode # 0))
                   => /\ ~copilot_status.raised
                      /\ ~copilot_status.value.available

\* What holds of health in place of C12's first part: the request is answered
\* as C12 says whenever the probe returns, and the handler lets out whatever
\* the probe raises, which is never FileNotFoundError.
HealthFollowsProbeThatReturns ==
    (Answered /\ request.endpoint = "health") =>
        LET r == reply[1]
        IN \/ /\ r.status_code = 0
              /\ r = Uncaught(r.body.uncaught)
              /\ r.body.uncaught # "FileNotFoundError"
           \/ /\ r.status_code = 200
              /\ r.body.status = "healthy"
              /\ r.body.copilot.available
              /\ config.gh_token # <<>>
           \/ /\ r.status_code = 503
              /\ r.body.status = "degraded"
              /\ ~r.body.copilot.available

\* The body of the request is JSON text that parses to an object.
BodyIsObject == request.body.parses /\ IsDict(request.body.value)

\* The body is an object whose "messages" is missing or is the empty list.
NoMessages == BodyIsObject /\ Get(request.body.value, "messages", <<>>) = <<>>

\* A well-formed JSON error object with the status code.
IsErrorObject(r, status_code) ==
    /\ r.status_code = status_code
    /\ r.mimetype = "application/json"
    /\ "error" \in DOMAIN r.body

\* The body of the request is malformed: it is no JSON text, or it is JSON
\* text whose value is no object.
MalformedBody == ~request.body.parses \/ ~IsDict(request.body.value)

\* C13 as stated: an answered request to chat or stream never ended in an
\* exception the handler let out, and if it is not answered with 200 it is
\* answered with a JSON object that has an "error" member and status 400, 401
\* or 500.  Of the requests that passed the auth gate: a body whose messages
\* are missing or empty gets 400, a malformed body gets 400, and a request
\* whose service call raised gets 500 with the error "Internal server error"
\* and the exception's text as details, which for a CLI executable that was
\* not found is the install instructions.
C13_FailureIsJsonErrorObject ==
    (Answered /\ request.endpoint \in {"chat", "stream"}) =>
        LET r == reply[1]
            passed == r.status_code # 401
        IN /\ r.status_code # 0
           /\ r.status_code # 200 =>
                 \E code \in {400, 401, 500} : IsErrorObject(r, code)
           /\ (passed /\ NoMessages) => IsErrorObject(r, 400)
           /\ (passed /\ MalformedBody) => IsErrorObject(r, 400)
           /\ (pc[1] = "done" /\ call[1].delivered[1].raised) =>
                 /\ IsErrorObject(r, 500)
                 /\ r.body.error = "Internal server error"
                 /\ r.body.details = call[1].delivered[1].exc
           /\ (pc[1] = "done" /\ ~call[1].delivered[1].raised) =>
                 r.status_code = 200
           /\ r.status_code = 200 => pc[1] = "done"

\* What the handlers do, beside C13: no answer is an exception let out and
\* every answer other than 200 is a JSON error object; of the malformed
\* bodies that passed the gate only the one for which get_json raised
\* json.JSONDecodeError gets 400, and one for which it raised another
\* ValueError, or whose JSON value is no object, gets 500 with the error
\* "Internal server error".
MalformedBodyAsAnswered ==
    (Answered /\ request.endpoint \in {"chat", "stream"}) =>
        LET r == reply[1]
            passed == r.status_code # 401
        IN /\ r.status_code # 0
           /\ r.status_code # 200 =>
                 \E code \in {400, 401, 500} : IsErrorObject(r, code)
           /\ (passed /\ NoMessages) => r = MessagesRequired
           /\ (passed /\ request.body = NotJson) => r = InvalidJson
           /\ (passed /\ ~request.body.parses /\ request.body # NotJson) =>
                 r = InternalServerError(request.body.error)
           /\ (passed /\ request.body.parses /\ ~BodyIsObject) =>
                 r = InternalServerError("AttributeError")
           /\ (pc[1] = "done" /\ call[1].delivered[1].raised) =>
                 r = InternalServerError(call[1].delivered[1].exc)
           /\ (pc[1] = "done" /\ ~call[1].delivered[1].raised) =>
                 r.status_code = 200
           /\ r.status_code = 200 => pc[1] = "done"

\* The service was not entered for the request: chat() was not called, so no
\* CLI was spawned, and no workspace directory exists.
NoSideEffect ==
    /\ pc[1] = "idle"
    /\ call[1] = NotCalled
    /\ \A p \in WorkspacePaths : ~fs[p].exists

TokenValid == validate_token(config.api_key, request.auth_header)

\* C16: for a request to chat or stream, while its token is invalid or its
\* body holds no messages the service is never entered, no workspace directory
\* exists and no CLI was spawned; once answered, a request with an invalid
\* token got 401 whatever its body, parseable or not, a request with a valid
\* token and missing or empty messages got the 400 "Messages are required"
\* object, and every answer with status 401 or 400 left no side effect.
C16_RejectedWithoutSideEffect ==
    request.endpoint \in {"chat", "stream"} =>
        /\ (~TokenValid \/ NoMessages) => NoSideEffect
        /\ Answered =>
              /\ ~TokenValid => reply[1] = Unauthorized
              /\ (TokenValid /\ NoMessages) => reply[1] = MessagesRequired
              /\ reply[1].status_code \in {400, 401} => NoSideEffect

\* C16's case: with the key "k" configured, a request with the header
\* "Bearer x" and a body that is no JSON text was answered with 401, and the
\* service was not entered.
C16_Witness ==
    /\ Answered /\ request.endpoint \in {"chat", "stream"}
    /\ config.api_key = <<"k">>
    /\ request.auth_header = Present(BearerPrefix \o <<"x">>)
    /\ ~request.body.parses
    /\ reply[1] = Unauthorized
    /\ NoSideEffect
====
